---- MODULE Spec2Model ----
(***************************************************************************)
(* A model of capytaine's hierarchical block matrices                      *)
(* (src/capytaine/matrices/block_matrices.py).                             *)
(*                                                                         *)
(* Python values are records tagged by a field "kind":                     *)
(*   "ndarray"        a dense numpy array, 1-D or 2-D (shape, dtype, data) *)
(*   "BlockMatrix"    an instance of class BlockMatrix                     *)
(*   "Number"         a Python scalar                                      *)
(*   "NotImplemented" the singleton a binary method returns to say that    *)
(*                    it does not handle its operand                       *)
(*   "None"           the value of a function that falls off its end       *)
(*   "list"           a Python list of results                             *)
(*   "raise"          an exception that left the call (exc, where)         *)
(* Array elements are integers (the reals and complex numbers the model    *)
(* computes with are the integers among them); the element type of an      *)
(* array is carried apart from its elements, in dtype.                     *)
(***************************************************************************)
EXTENDS Integers, Sequences, FiniteSets, TLC

VARIABLES pc, op, args, res, _vertices, _faces, __internals__, heap, calls

vars == <<pc, op, args, res, _vertices, _faces, __internals__, heap, calls>>

(***************************************************************************)
(* Bounds of the model.                                                    *)
(***************************************************************************)
\* Largest number of rows, and of columns, of a generated matrix.
MaxSize == 3
\* Longest list handed to fft_of_list.
MaxList == 2
MaxShared == 2
MaxCoord == 1
MaxVertices == 2
MaxFaces == 1
\* Largest number of operations on the matrices of a heap.
MaxCalls == 2

(***************************************************************************)
(* Sequences, itertools.                                                   *)
(***************************************************************************)
Min(a, b) == IF a <= b THEN a ELSE b

\* The sequence with the elements of the function f on 1..n, each computed
\* once.
Tup(f) == f \o <<>>

RECURSIVE SumSeq(_)
\* Python's sum() of a list of integers.
SumSeq(s) == IF s = <<>> THEN 0 ELSE Head(s) + SumSeq(Tail(s))

\* list(itertools.accumulate(s)): the running sums of s.
accumulate(s) == Tup([k \in 1..Len(s) |-> SumSeq(SubSeq(s, 1, k))])

\* s[:-1]
ButLast(s) == IF s = <<>> THEN <<>> ELSE SubSeq(s, 1, Len(s) - 1)

RECURSIVE Flatten(_)
\* (block for line in grid for block in line)
Flatten(grid) == IF grid = <<>> THEN <<>> ELSE Head(grid) \o Flatten(Tail(grid))

(***************************************************************************)
(* Python values.                                                          *)
(***************************************************************************)
Raise(exc, where) == [kind |-> "raise", exc |-> exc, where |-> where]

NotImplemented == [kind |-> "NotImplemented"]

None == [kind |-> "None"]

Number(dtype, value) == [kind |-> "Number", dtype |-> dtype, value |-> value]

PyList(items) == [kind |-> "list", items |-> items]

IsRaise(x) == x.kind = "raise"

IsNDArray(x) == x.kind = "ndarray"

IsBlockMatrix(x) == x.kind = "BlockMatrix"

\* The first exception of a sequence of values, when there is one.
FirstRaise(s) == s[CHOOSE k \in 1..Len(s) : IsRaise(s[k]) /\ \A l \in 1..(k - 1) : ~IsRaise(s[l])]

AnyRaise(s) == \E k \in 1..Len(s) : IsRaise(s[k])

(***************************************************************************)
(* numpy: element types.                                                   *)
(***************************************************************************)
\* The kind of a dtype, in the order of numpy's promotion.
DTypeRank(d) == CASE d = "bool" -> 0 [] d = "int64" -> 1 [] d = "float64" -> 2 [] d = "complex128" -> 3

\* np.result_type(d1, d2)
result_type(d1, d2) == IF DTypeRank(d1) >= DTypeRank(d2) THEN d1 ELSE d2

\* np.can_cast(from, to, casting="same_kind"): the rule of an in-place
\* operation (a += b), whose result is written back with a's dtype.
can_cast_same_kind(from, to) == DTypeRank(from) <= DTypeRank(to)

(***************************************************************************)
(* numpy: dense arrays.  A 2-D array holds its rows, data[i][j], and a 1-D *)
(* array its elements, data[i]; both are indexed from 1 here, from 0 in    *)
(* Python.                                                                 *)
(***************************************************************************)
NDArray(shape, dtype, data) == [kind |-> "ndarray", shape |-> shape, dtype |-> dtype, data |-> data]

ndim(x) == IF IsNDArray(x) THEN Len(x.shape) ELSE 2

\* np.zeros((h, w), dtype)  /  np.empty((h, w), dtype), whose elements are
\* whatever the memory held: g.
Filled2(h, w, dtype, g) == NDArray(<<h, w>>, dtype, Tup([i \in 1..h |-> Tup([j \in 1..w |-> g])]))

\* np.zeros(n, dtype)
Zeros1(n, dtype) == NDArray(<<n>>, dtype, Tup([i \in 1..n |-> 0]))

\* a.T of a 2-D array
ndarray_T(a) ==
    NDArray(<<a.shape[2], a.shape[1]>>, a.dtype,
            Tup([j \in 1..a.shape[2] |-> Tup([i \in 1..a.shape[1] |-> a.data[i][j]])]))

\* a.astype(dtype)
ndarray_astype(a, dtype) == NDArray(a.shape, dtype, a.data)

\* Two lengths broadcast together when they are equal or one of them is 1.
Broadcastable(m, n) == m = n \/ m = 1 \/ n = 1

BroadcastLen(m, n) == IF m = 1 THEN n ELSE m

\* The index of an axis of length m that is read at place i of the broadcast.
BIdx(m, i) == IF m = 1 THEN 1 ELSE i

\* a @ b for a 2-D array a and a 1-D or 2-D array b.
ndarray_matmul(a, b) ==
    IF a.shape[2] # b.shape[1]
    THEN Raise("ValueError", "matmul: shapes not aligned")
    ELSE LET n == a.shape[2]
             d == result_type(a.dtype, b.dtype)
         IN  IF Len(b.shape) = 1
             THEN NDArray(<<a.shape[1]>>, d,
                          Tup([i \in 1..a.shape[1] |-> SumSeq(Tup([k \in 1..n |-> a.data[i][k] * b.data[k]]))]))
             ELSE NDArray(<<a.shape[1], b.shape[2]>>, d,
                          Tup([i \in 1..a.shape[1] |-> Tup([j \in 1..b.shape[2] |->
                              SumSeq(Tup([k \in 1..n |-> a.data[i][k] * b.data[k][j]]))])]))

\* v[slice(p, p + n)] of a 1-D array: a slice is cut at the end of the array.
Slice1(v, p, n) ==
    LET lo == Min(p, v.shape[1])
        hi == Min(p + n, v.shape[1])
    IN  NDArray(<<hi - lo>>, v.dtype, Tup([i \in 1..(hi - lo) |-> v.data[lo + i]]))

\* a[slice(p, p + h), slice(q, q + w)] of a 2-D array.
Slice2(a, p, h, q, w) ==
    LET rlo == Min(p, a.shape[1])
        rhi == Min(p + h, a.shape[1])
        clo == Min(q, a.shape[2])
        chi == Min(q + w, a.shape[2])
    IN  NDArray(<<rhi - rlo, chi - clo>>, a.dtype,
                Tup([i \in 1..(rhi - rlo) |-> Tup([j \in 1..(chi - clo) |-> a.data[rlo + i][clo + j]])]))

\* full[slice(p, p + h), slice(q, q + w)] = b: the frame is cut at the edges
\* of full, b is broadcast to the frame and cast to full's dtype.
SetSlice2(full, p, h, q, w, b) ==
    LET rlo == Min(p, full.shape[1])
        rhi == Min(p + h, full.shape[1])
        clo == Min(q, full.shape[2])
        chi == Min(q + w, full.shape[2])
    IN  IF ~((b.shape[1] = rhi - rlo \/ b.shape[1] = 1) /\ (b.shape[2] = chi - clo \/ b.shape[2] = 1))
        THEN Raise("ValueError", "could not broadcast input array into the frame")
        ELSE [full EXCEPT !.data =
                 Tup([i \in 1..full.shape[1] |-> Tup([j \in 1..full.shape[2] |->
                     IF i > rlo /\ i <= rhi /\ j > clo /\ j <= chi
                     THEN b.data[BIdx(b.shape[1], i - rlo)][BIdx(b.shape[2], j - clo)]
                     ELSE full.data[i][j]])])]

(***************************************************************************)
(* numpy: np.asarray of a list of lists of blocks, the array that          *)
(* BlockMatrix.__init__ stores.  numpy looks into the nested sequences and *)
(* into the arrays it finds there for the deepest common shape:            *)
(*  - when every slot is an array and all have one shape (h, w) the result *)
(*    is ONE numeric 4-D array of shape (nr, nc, h, w), of the promoted    *)
(*    dtype of the slots;                                                  *)
(*  - when every slot is an array, all of one height but not of one width, *)
(*    numpy settles on the shape (nr, nc, h) and then fails to store the   *)
(*    2-D slots in it: ValueError (could not broadcast input array);       *)
(*  - otherwise (heights differ, or some slot is a BlockMatrix, which is   *)
(*    no sequence) the result is a 2-D array of the slots.                 *)
(* Either way the array is kept as the grid of the 2-D blocks that         *)
(* iterating it twice yields, with nd, its number of dimensions (kind      *)
(* "blocks").                                                              *)
(***************************************************************************)
StoredArray(nd, grid) == [kind |-> "blocks", nd |-> nd, grid |-> grid]

asarray(blocks) ==
    LET flat == Flatten(blocks)
        first == flat[1]
    IN  IF \E k \in 1..Len(flat) : flat[k].kind = "Number"
        THEN \* Python scalars among the slots: with an array beside them
             \* numpy fails; without, they are elements like the others.
             IF \E k \in 1..Len(flat) : IsNDArray(flat[k])
             THEN Raise("ValueError", "np.asarray: setting an array element with a sequence")
             ELSE StoredArray(2, blocks)
        ELSE IF \A k \in 1..Len(flat) : IsNDArray(flat[k])
        THEN IF \A k \in 1..Len(flat) : flat[k].shape = first.shape
             THEN LET d == CHOOSE d \in {flat[k].dtype : k \in 1..Len(flat)} :
                               \A k \in 1..Len(flat) : DTypeRank(flat[k].dtype) <= DTypeRank(d)
                  IN  StoredArray(4, Tup([i \in 1..Len(blocks) |-> Tup([j \in 1..Len(blocks[i]) |->
                                         ndarray_astype(blocks[i][j], d)])]))
             ELSE IF \A k \in 1..Len(flat) : flat[k].shape[1] = first.shape[1]
                  THEN Raise("ValueError", "np.asarray: could not broadcast input array")
                  ELSE StoredArray(2, blocks)
        ELSE StoredArray(2, blocks)

\* arr.T of the stored array.  A 2-D array of objects has its grid
\* transposed.  A 4-D array has ALL its axes reversed: from the shape
\* (nr, nc, h, w) to (w, h, nc, nr), element [a, b, c, d] being the old
\* [d, c, b, a].
StoredArray_T(arr) ==
    LET g == arr.grid
        nr == Len(g)
        nc == Len(g[1])
    IN  IF arr.nd = 2
        THEN StoredArray(2, Tup([j \in 1..nc |-> Tup([i \in 1..nr |-> g[i][j]])]))
        ELSE LET h == g[1][1].shape[1]
                 w == g[1][1].shape[2]
             IN  StoredArray(4, Tup([a \in 1..w |-> Tup([b \in 1..h |->
                     NDArray(<<nc, nr>>, g[1][1].dtype,
                             Tup([c \in 1..nc |-> Tup([d \in 1..nr |-> g[d][c].data[b][a]])]))])]))

\* np.moveaxis(arr, 1, 0): the grid with its two first axes exchanged.
moveaxis_1_0(arr) ==
    LET g == arr.grid
    IN  Tup([j \in 1..Len(g[1]) |-> Tup([i \in 1..Len(g) |-> g[i][j]])])

(***************************************************************************)
(* class BlockMatrix: construction and validation.                         *)
(***************************************************************************)
\* The shape attribute of a slot: of an array its shape, of a BlockMatrix
\* the shape that its constructor recorded.
ShapeOf(block) == block.shape

\* BlockMatrix._compute_shape
_compute_shape(_stored_block_shapes) ==
    <<SumSeq(_stored_block_shapes[1]), SumSeq(_stored_block_shapes[2])>>

\* BlockMatrix._check_dimensions_of_blocks
_check_dimensions_of_blocks(all_blocks) ==
    /\ \A i \in 1..Len(all_blocks.grid) : \A j \in 2..Len(all_blocks.grid[i]) :
           ShapeOf(all_blocks.grid[i][j])[1] = ShapeOf(all_blocks.grid[i][1])[1]
    /\ LET cols == moveaxis_1_0(all_blocks)
       IN  \A j \in 1..Len(cols) : \A i \in 2..Len(cols[j]) :
               ShapeOf(cols[j][i])[2] = ShapeOf(cols[j][1])[2]

\* BlockMatrix._check_dtype: the slots of the grid itself are compared, a
\* nested BlockMatrix by the dtype it recorded.
_check_dtype(_stored_blocks, dtype) ==
    \A i \in 1..Len(_stored_blocks.grid) : \A j \in 1..Len(_stored_blocks.grid[i]) :
        _stored_blocks.grid[i][j].dtype = dtype

\* The end of BlockMatrix.__init__: the two assertions that check asks for.
Validated(self, check) ==
    IF check /\ ~_check_dimensions_of_blocks(self._stored_blocks)
    THEN Raise("AssertionError", "_check_dimensions_of_blocks")
    ELSE IF check /\ ~_check_dtype(self._stored_blocks, self.dtype)
    THEN Raise("AssertionError", "_check_dtype")
    ELSE self

\* BlockMatrix.__init__ from the array _stored_blocks on.  The block shapes
\* are None, or the pair that the caller gives.
BlockMatrixOf(_stored_blocks, given_block_shapes, check) ==
    IF IsRaise(_stored_blocks) THEN _stored_blocks
    ELSE IF _stored_blocks.grid[1][1].kind = "Number"
    THEN \* assert self._stored_blocks[0][0].ndim == self.ndim
         Raise("AssertionError", "_stored_blocks[0][0].ndim")
    ELSE LET g == _stored_blocks.grid
             _stored_block_shapes ==
                 IF given_block_shapes = None
                 THEN <<Tup([i \in 1..Len(g) |-> ShapeOf(g[i][1])[1]]),
                        Tup([j \in 1..Len(g[1]) |-> ShapeOf(g[1][j])[2]])>>
                 ELSE given_block_shapes
         IN  Validated([kind |-> "BlockMatrix",
                        _stored_blocks |-> _stored_blocks,
                        _stored_nb_blocks |-> <<Len(g), Len(g[1])>>,
                        _stored_block_shapes |-> _stored_block_shapes,
                        shape |-> _compute_shape(_stored_block_shapes),
                        dtype |-> g[1][1].dtype],
                       check)

\* BlockMatrix.__init__(blocks, _stored_block_shapes, check)
BlockMatrix(blocks, given_block_shapes, check) ==
    BlockMatrixOf(asarray(blocks), given_block_shapes, check)

\* The properties all_blocks, block_shapes and nb_blocks.
all_blocks(self) == self._stored_blocks

block_shapes(self) == self._stored_block_shapes

nb_blocks(self) == self._stored_nb_blocks

(***************************************************************************)
(* Flattening.                                                             *)
(***************************************************************************)
\* _stored_block_positions that forgets the frame of the matrix.
_stored_block_positions_from_origin(self, global_frame) ==
    LET x_acc == accumulate(<<0>> \o ButLast(block_shapes(self)[1]))
        y_acc == accumulate(<<0>> \o ButLast(block_shapes(self)[2]))
    IN  Tup([k \in 1..(Len(x_acc) * Len(y_acc)) |->
            << <<x_acc[((k - 1) \div Len(y_acc)) + 1], y_acc[((k - 1) % Len(y_acc)) + 1]>> >>])

\* BlockMatrix._stored_block_positions: one list of one position per slot,
\* in the order of product(x_acc, y_acc).
_stored_block_positions(self, global_frame) ==
    LET x_acc == accumulate(<<0>> \o ButLast(block_shapes(self)[1]))
        y_acc == accumulate(<<0>> \o ButLast(block_shapes(self)[2]))
    IN  Tup([k \in 1..(Len(x_acc) * Len(y_acc)) |->
            << <<global_frame[1] + x_acc[((k - 1) \div Len(y_acc)) + 1],
                 global_frame[2] + y_acc[((k - 1) % Len(y_acc)) + 1]>> >>])

RECURSIVE _put_in_full_matrix(_, _, _)
RECURSIVE PutBlocks(_, _, _, _, _)
RECURSIVE CopyFirstAppearance(_, _, _, _, _)
RECURSIVE CopyFirstAppearance_unassembled(_, _, _, _, _)
RECURSIVE WriteFullBlock(_, _, _, _)
\* The copy loop with the frame of the position itself as its source.
CopyFirstAppearance_unassembled(full_matrix, positions_of_the_block, k, shape, first) ==
    IF IsRaise(full_matrix) \/ k > Len(positions_of_the_block) THEN full_matrix
    ELSE LET position == positions_of_the_block[k]
         IN  CopyFirstAppearance_unassembled(
                 SetSlice2(full_matrix, position[1], shape[1], position[2], shape[2],
                           Slice2(full_matrix, position[1], shape[1], position[2], shape[2])),
                 positions_of_the_block, k + 1, shape, first)

\* for position in positions_of_the_block[1:]:
\*     full_matrix[block_frame] = full_matrix[frame_of_first_appearance]
\* from the k-th position on; shape is block.shape.
CopyFirstAppearance(full_matrix, positions_of_the_block, k, shape, first) ==
    IF IsRaise(full_matrix) \/ k > Len(positions_of_the_block) THEN full_matrix
    ELSE LET position == positions_of_the_block[k]
         IN  CopyFirstAppearance(
                 SetSlice2(full_matrix, position[1], shape[1], position[2], shape[2],
                           Slice2(full_matrix, first[1], shape[1], first[2], shape[2])),
                 positions_of_the_block, k + 1, shape, first)

\* for position in positions_of_the_block: full_matrix[block_frame] = full_block
\* from the k-th position on.
WriteFullBlock(full_matrix, positions_of_the_block, k, full_block) ==
    IF IsRaise(full_matrix) \/ k > Len(positions_of_the_block) THEN full_matrix
    ELSE LET position == positions_of_the_block[k]
         IN  WriteFullBlock(
                 SetSlice2(full_matrix, position[1], full_block.shape[1],
                           position[2], full_block.shape[2], full_block),
                 positions_of_the_block, k + 1, full_block)

\* The loop of _put_in_full_matrix over zip(blocks, positions), from its
\* k-th turn on; an exception of a turn ends the loop.
PutBlocks(blocks, positions, full_matrix, k, n) ==
    IF k > n \/ IsRaise(full_matrix) THEN full_matrix
    ELSE LET block == blocks[k]
             positions_of_the_block == positions[k]
             first == positions_of_the_block[1]
             written ==
                 IF IsBlockMatrix(block)
                 THEN CopyFirstAppearance(_put_in_full_matrix(block, full_matrix, first),
                                          positions_of_the_block, 2, block.shape, first)
                 ELSE IF ~IsNDArray(block)
                 THEN Raise("AttributeError", "the slot has no shape")
                 ELSE WriteFullBlock(full_matrix, positions_of_the_block, 1, block)
         IN  PutBlocks(blocks, positions, written, k + 1, n)

\* BlockMatrix._put_in_full_matrix: the array with the blocks written in.
_put_in_full_matrix(self, full_matrix, where) ==
    LET blocks == Flatten(self._stored_blocks.grid)
        positions == _stored_block_positions(self, where)
    IN  PutBlocks(blocks, positions, full_matrix, 1, Min(Len(blocks), Len(positions)))

\* The positions that a subclass sharing its stored blocks yields for a row
\* of n stored slots of shape (h, w): the k-th slot appears at every block
\* (i, j) of the n x n grid with |i - j| = k - 1, the diagonal first.
SharedPositions(n, h, w, global_frame) ==
    Tup([k \in 1..n |->
        LET d == k - 1
            upper == Tup([i \in 1..(n - d) |->
                         <<global_frame[1] + (i - 1) * h, global_frame[2] + (i - 1 + d) * w>>])
            lower == Tup([i \in 1..(n - d) |->
                         <<global_frame[1] + (i - 1 + d) * h, global_frame[2] + (i - 1) * w>>])
        IN  IF d = 0 THEN upper ELSE upper \o lower])

\* BlockMatrix.full_matrix.  np.empty leaves the new array's elements as the
\* memory held them: every element starts as g.
full_matrix(self, g) ==
    _put_in_full_matrix(self, Filled2(self.shape[1], self.shape[2], self.dtype, g), <<0, 0>>)

(***************************************************************************)
(* Python's operators on the slots of a grid.  A unary function f and a    *)
(* binary operator are records (name, and what the lambda closes over).    *)
(***************************************************************************)
IsNumber(x) == x.kind = "Number"

RECURSIVE PyUnary(_, _)
RECURSIVE PyBinary(_, _, _)
RECURSIVE _apply_unary_op(_, _)
RECURSIVE _apply_binary_op(_, _, _)
RECURSIVE T(_)

\* The dtype of a true division: float64 at least.
truediv_type(d1, d2) == result_type("float64", result_type(d1, d2))

\* The elementwise operator of two numbers.  A quotient x / y is kept as the
\* pair <<x, y>>, a comparison as 1 (True) or 0 (False).
ElemBinary(name, x, y) ==
    CASE name = "add" -> x + y
      [] name = "sub" -> x - y
      [] name = "mul" -> x * y
      [] name = "truediv" -> <<x, y>>
      [] name = "rtruediv" -> <<y, x>>
      [] name = "eq" -> IF x = y THEN 1 ELSE 0

ElemType(name, d1, d2) ==
    CASE name \in {"add", "sub", "mul"} -> result_type(d1, d2)
      [] name \in {"truediv", "rtruediv"} -> truediv_type(d1, d2)
      [] name = "eq" -> "bool"

\* A number as the 1 x 1 array that numpy broadcasts.
AsArray(n) == NDArray(<<1, 1>>, n.dtype, << <<n.value>> >>)

\* The elementwise operator of two 2-D arrays, with numpy's broadcasting.
ndarray_binary(name, a, b) ==
    IF ~(Broadcastable(a.shape[1], b.shape[1]) /\ Broadcastable(a.shape[2], b.shape[2]))
    THEN Raise("ValueError", "operands could not be broadcast together")
    ELSE LET h == BroadcastLen(a.shape[1], b.shape[1])
             w == BroadcastLen(a.shape[2], b.shape[2])
         IN  NDArray(<<h, w>>, ElemType(name, a.dtype, b.dtype),
                     Tup([i \in 1..h |-> Tup([j \in 1..w |->
                         ElemBinary(name, a.data[BIdx(a.shape[1], i)][BIdx(a.shape[2], j)],
                                    b.data[BIdx(b.shape[1], i)][BIdx(b.shape[2], j)])])]))

\* The function f of _apply_unary_op on one number.
ElemUnary(f, e) ==
    CASE f.name = "neg" -> 0 - e
      [] f.name = "rmul" -> f.other.value * e
      [] f.name = "truediv" -> <<e, f.other.value>>
      [] f.name = "rtruediv" -> <<f.other.value, e>>
      [] f.name = "invert" -> IF f.dtype = "bool" THEN 1 - e ELSE (0 - 1) - e

\* The dtype that f gives to an array of dtype d.
UnaryType(f, d) ==
    CASE f.name = "neg" -> d
      [] f.name = "rmul" -> result_type(f.other.dtype, d)
      [] f.name \in {"truediv", "rtruediv"} -> truediv_type(f.other.dtype, d)
      [] f.name = "invert" -> d

\* The elementwise f of one 2-D array.
ndarray_unary(f, a) ==
    NDArray(a.shape, UnaryType(f, a.dtype),
            Tup([i \in 1..a.shape[1] |-> Tup([j \in 1..a.shape[2] |-> ElemUnary(f, a.data[i][j])])]))

\* op(block): the function f of _apply_unary_op applied to one slot.
\*   neg        operator.neg            -x
\*   rmul       lambda x: other*x       (f.other, a Number)
\*   truediv    lambda x: x/other
\*   rtruediv   lambda x: other/x
\*   astype     lambda x: x.astype(dtype)
\*   T          lambda x: x.T
\*   invert     operator.invert         ~x: the logical not of booleans, the
\*              bitwise not of integers, no operation of other numbers
PyUnary(f, x) ==
    IF IsNDArray(x)
    THEN CASE f.name \in {"neg", "rmul", "truediv", "rtruediv"} -> ndarray_unary(f, x)
           [] f.name = "invert" ->
                  IF x.dtype \in {"bool", "int64"}
                  THEN ndarray_unary([name |-> "invert", dtype |-> x.dtype], x)
                  ELSE Raise("TypeError", "ufunc 'invert' not supported for the input types")
           [] f.name = "astype" -> ndarray_astype(x, f.dtype)
           [] f.name = "T" -> ndarray_T(x)
    ELSE IF IsBlockMatrix(x)
    THEN CASE f.name \in {"neg", "rmul", "truediv", "rtruediv", "astype", "invert"} ->
                  \* __neg__; other*x reaches __rmul__, which is self * other:
                  \* __mul__ with a Number; __truediv__ and __rtruediv__ with
                  \* a Number; astype; __invert__: each is _apply_unary_op with
                  \* the same f.
                  _apply_unary_op(x, f)
           [] f.name = "T" -> T(x)
    ELSE \* a Python bool, left in a grid by an == that no operand handled
         CASE f.name = "neg" -> Number("int64", 0 - x.value)
           [] f.name = "rmul" -> Number(result_type(f.other.dtype, "int64"), f.other.value * x.value)
           [] f.name \in {"truediv", "rtruediv"} -> Number("float64", <<x.value, f.other.value>>)
           [] f.name = "invert" -> Number("int64", (0 - 1) - x.value)
           [] OTHER -> Raise("AttributeError", "bool has no such attribute")

\* What Python makes of the value r of the method of an operator between
\* two block matrices.
Unhandled(name, r) ==
    IF r = NotImplemented
    THEN IF name = "eq" THEN Number("bool", 0)
         ELSE Raise("TypeError", "unsupported operand type(s)")
    ELSE r

\* op(block, other_block): the operator of _apply_binary_op applied to two
\* slots, by Python's rules.  Two arrays: numpy's elementwise operator.  Two
\* block matrices: the method of the left one; when it returns
\* NotImplemented Python does not try the reflected method, the operands
\* being of one type, and raises TypeError; an == falls back on identity,
\* False for two objects.  An array and a BlockMatrix: numpy applies the
\* operator to each element and the BlockMatrix, which no method handles.
PyBinary(name, x, y) ==
    IF IsNDArray(x) /\ IsNDArray(y)
    THEN ndarray_binary(name, x, y)
    ELSE IF IsBlockMatrix(x) /\ IsBlockMatrix(y)
    THEN Unhandled(name, _apply_binary_op(x, name, y))
    ELSE IF IsNumber(x) /\ IsNumber(y)
    THEN Number(ElemType(name, x.dtype, y.dtype), ElemBinary(name, x.value, y.value))
    ELSE IF (IsNumber(x) /\ IsNDArray(y)) \/ (IsNDArray(x) /\ IsNumber(y))
    THEN ndarray_binary(name, IF IsNumber(x) THEN AsArray(x) ELSE x, IF IsNumber(y) THEN AsArray(y) ELSE y)
    ELSE IF name = "eq"
    THEN IF IsNDArray(x) THEN Filled2(x.shape[1], x.shape[2], "bool", 0)
         ELSE IF IsNDArray(y) THEN Filled2(y.shape[1], y.shape[2], "bool", 0)
         ELSE Number("bool", 0)
    ELSE Raise("TypeError", "unsupported operand type(s)")

(***************************************************************************)
(* The algebra of block matrices.                                          *)
(***************************************************************************)
\* self.__class__(result, _stored_block_shapes=..., check=False) once every
\* slot of result is computed; an exception of a slot leaves the call.
BuildFrom(result, _stored_block_shapes) ==
    IF AnyRaise(Flatten(result)) THEN FirstRaise(Flatten(result))
    ELSE BlockMatrix(result, _stored_block_shapes, FALSE)

\* BlockMatrix._apply_unary_op
_apply_unary_op(self, f) ==
    LET g == self._stored_blocks.grid
        result == Tup([i \in 1..Len(g) |-> Tup([j \in 1..Len(g[i]) |-> PyUnary(f, g[i][j])])])
    IN  BuildFrom(result, self._stored_block_shapes)

\* _apply_binary_op without its comparison of the two nb_blocks.
_apply_binary_op_of_any_grids(self, name, other) ==
    IF IsBlockMatrix(other)
    THEN LET g == self._stored_blocks.grid
             h == other._stored_blocks.grid
             result == Tup([i \in 1..Min(Len(g), Len(h)) |->
                           Tup([j \in 1..Min(Len(g[i]), Len(h[i])) |-> PyBinary(name, g[i][j], h[i][j])])])
         IN  BuildFrom(result, self._stored_block_shapes)
    ELSE NotImplemented

\* BlockMatrix._apply_binary_op; zip stops at the shorter of its arguments.
_apply_binary_op(self, name, other) ==
    IF IsBlockMatrix(other) /\ nb_blocks(self) = nb_blocks(other)
    THEN LET g == self._stored_blocks.grid
             h == other._stored_blocks.grid
             result == Tup([i \in 1..Min(Len(g), Len(h)) |->
                           Tup([j \in 1..Min(Len(g[i]), Len(h[i])) |-> PyBinary(name, g[i][j], h[i][j])])])
         IN  BuildFrom(result, self._stored_block_shapes)
    ELSE NotImplemented

\* __add__ with the operator of __sub__.
__add__with_sub(self, other) == _apply_binary_op(self, "sub", other)

\* BlockMatrix.__add__
__add__(self, other) == _apply_binary_op(self, "add", other)

\* BlockMatrix.__radd__: self + other, the + being Python's operator.  When
\* __add__ returns NotImplemented no reflected method of other handles the
\* block matrix either, and Python raises TypeError.
__radd__(self, other) == Unhandled("add", __add__(self, other))

\* BlockMatrix.__neg__
__neg__(self) == _apply_unary_op(self, [name |-> "neg"])

\* BlockMatrix.__sub__
__sub__(self, other) == _apply_binary_op(self, "sub", other)

\* BlockMatrix.__rsub__: other._apply_binary_op(sub, self), the method of a
\* block matrix only.
__rsub__(self, other) ==
    IF IsBlockMatrix(other) THEN _apply_binary_op(other, "sub", self)
    ELSE Raise("AttributeError", "the operand has no attribute _apply_binary_op")

\* BlockMatrix.__mul__
__mul__(self, other) ==
    IF IsNumber(other) THEN _apply_unary_op(self, [name |-> "rmul", other |-> other])
    ELSE _apply_binary_op(self, "mul", other)

\* BlockMatrix.__rmul__
__rmul__(self, other) == __mul__(self, other)

\* BlockMatrix.__truediv__
__truediv__(self, other) ==
    IF IsNumber(other) THEN _apply_unary_op(self, [name |-> "truediv", other |-> other])
    ELSE _apply_binary_op(self, "truediv", other)

\* BlockMatrix.__rtruediv__
__rtruediv__(self, other) ==
    IF IsNumber(other) THEN _apply_unary_op(self, [name |-> "rtruediv", other |-> other])
    ELSE _apply_binary_op(self, "rtruediv", other)

\* BlockMatrix.__eq__
__eq__(self, other) == _apply_binary_op(self, "eq", other)

\* BlockMatrix.__invert__
__invert__(self) == _apply_unary_op(self, [name |-> "invert"])

\* ~v, v being what an == returned or raised.
PyInvert(v) == IF IsRaise(v) THEN v ELSE PyUnary([name |-> "invert"], v)

\* BlockMatrix.__ne__: ~(self == other), the == being Python's operator.
__ne__(self, other) == PyInvert(Unhandled("eq", __eq__(self, other)))

\* BlockMatrix.astype
astype(self, dtype) == _apply_unary_op(self, [name |-> "astype", dtype |-> dtype])

\* BlockMatrix.T: the slots are transposed by _apply_unary_op, which builds
\* the new matrix with self's block shapes; then the array of the slots of
\* the new matrix is replaced by its transpose.  Nothing else of the new
\* matrix is assigned.
ChangePositionOfBlocks(transposed_blocks) ==
    IF IsRaise(transposed_blocks) THEN transposed_blocks
    ELSE [transposed_blocks EXCEPT !._stored_blocks = StoredArray_T(@)]

T(self) == ChangePositionOfBlocks(_apply_unary_op(self, [name |-> "T"]))

(***************************************************************************)
(* Products.                                                               *)
(***************************************************************************)
RECURSIVE matvec(_, _)
RECURSIVE matmat(_, _, _)
RECURSIVE __matmul__(_, _, _)
RECURSIVE MatvecLoop(_, _, _, _, _)
RECURSIVE SumLoop(_, _, _, _, _, _)

\* result[slice(p, p + n)] += prod of 1-D arrays: prod is broadcast to the
\* slice, and the sum is cast back to result's dtype, which numpy allows
\* within a kind or to a wider kind only (casting rule same_kind).  An
\* exception of the product leaves the statement.
IAddSlice1(result, p, n, prod) ==
    LET lo == Min(p, result.shape[1])
        hi == Min(p + n, result.shape[1])
    IN  IF IsRaise(prod) THEN prod
        ELSE IF ~(prod.shape[1] = hi - lo \/ prod.shape[1] = 1)
        THEN Raise("ValueError", "operands could not be broadcast together")
        ELSE IF ~can_cast_same_kind(result_type(result.dtype, prod.dtype), result.dtype)
        THEN Raise("TypeError", "Cannot cast ufunc add output with casting rule same_kind")
        ELSE [result EXCEPT !.data =
                 Tup([i \in 1..result.shape[1] |->
                     IF i > lo /\ i <= hi
                     THEN result.data[i] + prod.data[BIdx(prod.shape[1], i - lo)]
                     ELSE result.data[i]])]

UnhandledMatmul(r) ==
    IF r = NotImplemented THEN Raise("TypeError", "unsupported operand type(s) for @") ELSE r

\* a @ b by Python's rules, a being a slot and b a slot or an array.
PyMatmul(a, b, g) ==
    IF IsNDArray(a) /\ IsNDArray(b) THEN ndarray_matmul(a, b)
    ELSE IF IsBlockMatrix(a)
    THEN UnhandledMatmul(__matmul__(a, b, g))
    ELSE IF IsNDArray(a)
    THEN Raise("ValueError", "matmul: the operand is no array")
    ELSE Raise("TypeError", "unsupported operand type(s) for @")

\* The two loops of matvec, from the k-th slot on, of nr rows of nc slots.
MatvecLoop(self, other, result, k, n) ==
    IF k > n \/ IsRaise(result) THEN result
    ELSE LET line_heights == block_shapes(self)[1]
             line_positions == accumulate(<<0>> \o line_heights)
             col_widths == block_shapes(self)[2]
             col_positions == accumulate(<<0>> \o col_widths)
             nc == Min(Len(all_blocks(self).grid[1]), Len(col_widths))
             i == ((k - 1) \div nc) + 1
             j == ((k - 1) % nc) + 1
             block == all_blocks(self).grid[i][j]
         IN  MatvecLoop(self, other,
                        IAddSlice1(result, line_positions[i], line_heights[i],
                                   PyMatmul(block, Slice1(other, col_positions[j], col_widths[j]), 0)),
                        k + 1, n)

\* BlockMatrix.matvec
matvec(self, other) ==
    LET nr == Min(Len(all_blocks(self).grid), Len(block_shapes(self)[1]))
        nc == Min(Len(all_blocks(self).grid[1]), Len(block_shapes(self)[2]))
    IN  MatvecLoop(self, other, Zeros1(self.shape[1], other.dtype), 1, nr * nc)

\* acc + prod, once the product is computed.
PyAdd(acc, prod) == IF IsRaise(prod) THEN prod ELSE PyBinary("add", acc, prod)

\* sum(own_block @ other_block for ... in zip(own_line, other_col)), from the
\* k-th pair on: Python's sum starts from the int 0 and adds each product in
\* turn with +.
SumLoop(own_line, other_col, acc, k, n, g) ==
    IF k > n \/ IsRaise(acc) THEN acc
    ELSE SumLoop(own_line, other_col, PyAdd(acc, PyMatmul(own_line[k], other_col[k], g)), k + 1, n, g)

\* capytaine.matrices.builders.cut_matrix(full_matrix, x_shapes, y_shapes,
\* check): the dense matrix cut in blocks of the given heights and widths.
cut_matrix(full, x_shapes, y_shapes, check) ==
    LET x_acc == accumulate(<<0>> \o ButLast(x_shapes))
        y_acc == accumulate(<<0>> \o ButLast(y_shapes))
    IN  BlockMatrix(Tup([i \in 1..Len(x_shapes) |-> Tup([j \in 1..Len(y_shapes) |->
                        Slice2(full, x_acc[i], x_shapes[i], y_acc[j], y_shapes[j])])]),
                    None, check)

\* self @ cut_other
MatmulCut(self, cut_other, g) == IF IsRaise(cut_other) THEN cut_other ELSE PyMatmul(self, cut_other, g)

\* product.full_matrix()
FullOf(product, g) ==
    IF IsRaise(product) THEN product
    ELSE IF IsBlockMatrix(product) THEN full_matrix(product, g)
    ELSE Raise("AttributeError", "the product has no full_matrix")

\* BlockMatrix.matmat.  Its last branch calls full_matrix, whose np.empty
\* starts from g.  With neither condition met the method returns None.
matmat(self, other, g) ==
    IF IsBlockMatrix(other) /\ block_shapes(self)[2] = block_shapes(other)[1]
    THEN LET own_blocks == all_blocks(self).grid
             other_blocks == moveaxis_1_0(all_blocks(other))
             new_matrix == Tup([i \in 1..Len(own_blocks) |-> Tup([j \in 1..Len(other_blocks) |->
                               SumLoop(own_blocks[i], other_blocks[j], Number("int64", 0), 1,
                                       Min(Len(own_blocks[i]), Len(other_blocks[j])), g)])])
         IN  BuildFrom(new_matrix, None)
    ELSE IF IsNDArray(other) /\ self.shape[2] = other.shape[1]
    THEN FullOf(MatmulCut(self, cut_matrix(other, block_shapes(self)[2], <<other.shape[2]>>, FALSE), g), g)
    ELSE None

\* BlockMatrix.__matmul__
__matmul__(self, other, g) ==
    IF ~(IsBlockMatrix(other) \/ IsNDArray(other)) THEN NotImplemented
    ELSE IF ndim(other) = 2 THEN matmat(self, other, g)
    ELSE IF ndim(other) = 1 THEN matvec(self, other)
    ELSE NotImplemented

(***************************************************************************)
(* The transform of a list of block matrices.  An element of a transformed *)
(* array is kept exactly, as the tuple c of the coefficients of its sum    *)
(* c[1] + c[2] * w + ... + c[N] * w^(N-1), w = exp(-2 i pi / N).           *)
(***************************************************************************)
\* Element k (counted from 0) of the discrete Fourier transform of the
\* sequence x: the sum of the x[n] * w^(k * (n - 1)).
DFT(k, x) ==
    Tup([m \in 1..Len(x) |->
        SumSeq(Tup([n \in 1..Len(x) |-> IF (k * (n - 1)) % Len(x) = m - 1 THEN x[n] ELSE 0]))])

\* np.fft.fft(np.array(list_of_i_j_blocks), axis=0), as the list of arrays
\* that iterating over it yields.  Arrays of one shape are stacked; numpy
\* makes no numeric array of anything else.
np_fft(blocks) ==
    IF \E k \in 1..Len(blocks) : ~IsNDArray(blocks[k])
    THEN Raise("TypeError", "np.fft.fft of an array of objects")
    ELSE IF \A k \in 1..Len(blocks) : blocks[k].shape = blocks[1].shape
    THEN PyList(Tup([k \in 1..Len(blocks) |->
             NDArray(blocks[1].shape, "complex128",
                     Tup([i \in 1..blocks[1].shape[1] |-> Tup([j \in 1..blocks[1].shape[2] |->
                         DFT(k - 1, Tup([n \in 1..Len(blocks) |-> blocks[n].data[i][j]]))])]))]))
    ELSE IF \A k \in 1..Len(blocks) : blocks[k].shape[1] = blocks[1].shape[1]
    THEN Raise("ValueError", "np.array: could not broadcast input array")
    ELSE Raise("TypeError", "np.fft.fft of an array of objects")

RECURSIVE zeros_like(_, _)
\* capytaine.matrices.builders.zeros_like(A, dtype): the matrix of the
\* structure of A whose leaves hold zeros of the given type.
zeros_like(A, dtype) ==
    IF IsBlockMatrix(A)
    THEN BuildFrom(Tup([i \in 1..Len(A._stored_blocks.grid) |->
                      Tup([j \in 1..Len(A._stored_blocks.grid[i]) |->
                          zeros_like(A._stored_blocks.grid[i][j], dtype)])]),
                   A._stored_block_shapes)
    ELSE IF IsNDArray(A) THEN Filled2(A.shape[1], A.shape[2], dtype, 0)
    ELSE Raise("NotImplementedError", "zeros_like")

\* block_matrices[i_matrix]._stored_blocks[i_block, j_block], the indices
\* counted from 1.
GetBlock(matrix, i, j) ==
    IF ~IsBlockMatrix(matrix) THEN Raise("AttributeError", "_stored_blocks")
    ELSE IF i > Len(matrix._stored_blocks.grid) \/ j > Len(matrix._stored_blocks.grid[1])
    THEN Raise("IndexError", "index out of bounds")
    ELSE matrix._stored_blocks.grid[i][j]

\* matrix._stored_blocks[i_block, j_block] = computed_block: the matrix with
\* that slot set.  An array of objects takes the block as it is; a 4-D array
\* takes the elements of an array that broadcasts to the slot, cast to its
\* own type.
SetBlock(matrix, i, j, computed_block) ==
    IF ~IsBlockMatrix(matrix) THEN Raise("AttributeError", "_stored_blocks")
    ELSE IF i > Len(matrix._stored_blocks.grid) \/ j > Len(matrix._stored_blocks.grid[1])
    THEN Raise("IndexError", "index out of bounds")
    ELSE IF matrix._stored_blocks.nd = 2
    THEN [matrix EXCEPT !._stored_blocks.grid[i][j] = computed_block]
    ELSE IF ~IsNDArray(computed_block)
    THEN Raise("ValueError", "setting an array element with a sequence")
    ELSE IF ~(/\ Broadcastable(computed_block.shape[1], matrix._stored_blocks.grid[i][j].shape[1])
              /\ Broadcastable(computed_block.shape[2], matrix._stored_blocks.grid[i][j].shape[2])
              /\ computed_block.shape[1] <= matrix._stored_blocks.grid[i][j].shape[1]
              /\ computed_block.shape[2] <= matrix._stored_blocks.grid[i][j].shape[2])
    THEN Raise("ValueError", "could not broadcast input array")
    ELSE [matrix EXCEPT !._stored_blocks.grid[i][j].data =
             Tup([a \in 1..Len(@) |-> Tup([b \in 1..Len(@[a]) |->
                 computed_block.data[BIdx(computed_block.shape[1], a)][BIdx(computed_block.shape[2], b)]])])]

\* The sequence as a list, or the first exception raised while making it.
ListOrRaise(items) == IF AnyRaise(items) THEN FirstRaise(items) ELSE PyList(items)

\* for matrix, computed_block in zip(result, fft_of_blocks):
\*     matrix._stored_blocks[i_block, j_block] = computed_block
Distribute(result, i, j, fft_of_blocks) ==
    IF IsRaise(fft_of_blocks) THEN fft_of_blocks
    ELSE ListOrRaise(Tup([m \in 1..Len(result.items) |->
             IF m <= Len(fft_of_blocks.items)
             THEN SetBlock(result.items[m], i, j, fft_of_blocks.items[m])
             ELSE result.items[m]]))

RECURSIVE fft_of_list(_, _)
RECURSIVE FftLoop(_, _, _, _)

\* The transform of the slots gathered at one position.
FftOfBlocks(list_of_i_j_blocks) ==
    IF IsRaise(list_of_i_j_blocks) THEN list_of_i_j_blocks
    ELSE IF IsNDArray(list_of_i_j_blocks.items[1]) THEN np_fft(list_of_i_j_blocks.items)
    ELSE fft_of_list(list_of_i_j_blocks.items, FALSE)

\* The loop of fft_of_list over product(range(nb_blocks[0]),
\* range(nb_blocks[1])), from its k-th turn on; nb is nb_blocks.
FftLoop(block_matrices, nb, result, k) ==
    IF k > nb[1] * nb[2] \/ IsRaise(result) THEN result
    ELSE FftLoop(block_matrices, nb,
                 Distribute(result, ((k - 1) \div nb[2]) + 1, ((k - 1) % nb[2]) + 1,
                            FftOfBlocks(ListOrRaise(Tup([m \in 1..Len(block_matrices) |->
                                GetBlock(block_matrices[m], ((k - 1) \div nb[2]) + 1,
                                         ((k - 1) % nb[2]) + 1)])))),
                 k + 1)

\* assert [...]: Python takes a list for true when it has an element,
\* whatever the elements are.
AssertList(list) == list # <<>>

\* BlockMatrix.fft_of_list, called with the matrices and check.  np.complex is
\* complex128.
fft_of_list(block_matrices, check) ==
    LET class_of_matrices == block_matrices[1].kind
        nb == block_matrices[1]._stored_nb_blocks
        shape == block_matrices[1].shape
        rest == Tail(block_matrices)
    IN  IF check /\ ~(/\ AssertList(Tup([m \in 1..Len(rest) |-> nb = rest[m]._stored_nb_blocks]))
                      /\ AssertList(Tup([m \in 1..Len(rest) |-> shape = rest[m].shape]))
                      /\ AssertList(Tup([m \in 1..Len(rest) |-> class_of_matrices = rest[m].kind])))
        THEN Raise("AssertionError", "fft_of_list")
        ELSE FftLoop(block_matrices, nb,
                     ListOrRaise(Tup([m \in 1..Len(block_matrices) |->
                         zeros_like(block_matrices[m], "complex128")])),
                     1)

(***************************************************************************)
(* The inputs of the calls: matrices of at most MaxSize rows and columns.  *)
(* A matrix is generated from p = (rh, cw, mode, seed, dtype): the heights *)
(* of its block-rows, the widths of its block-columns, which slots are     *)
(* nested block matrices, its elements and its element type.               *)
(***************************************************************************)
\* The sequences of positive integers of sum at most MaxSize.
Partitions ==
    {s \in UNION {[1..k -> 1..MaxSize] : k \in 1..MaxSize} : SumSeq(s) <= MaxSize}

Modes == {"flat", "nested", "mixed"}

Seeds == {0, 1}

InputDTypes == {"float64", "complex128"}

Params == [rh : Partitions, cw : Partitions, mode : Modes, seed : Seeds, dtype : InputDTypes]

\* The element at row r and column c (counted from 1) of the matrix of a seed.
Val(seed, r, c) == (((3 * r + 5 * c + seed) * (r + 2 * c + 1 + seed)) % 7) - 3

GenLeaf(seed, dtype, r0, c0, h, w) ==
    NDArray(<<h, w>>, dtype, Tup([i \in 1..h |-> Tup([j \in 1..w |-> Val(seed, r0 + i, c0 + j)])]))

\* A nested slot of n rows (columns) is cut in two when n > 1.
Split(n) == IF n = 1 THEN <<1>> ELSE <<1, n - 1>>

IsNestedSlot(mode, i, j) == mode = "nested" \/ (mode = "mixed" /\ (i + j) % 2 = 0)

\* The grid of leaves of the heights rh and widths cw that holds the
\* elements from (r0, c0) on.
LeafGrid(seed, dtype, r0, c0, rh, cw) ==
    LET x_acc == accumulate(<<0>> \o ButLast(rh))
        y_acc == accumulate(<<0>> \o ButLast(cw))
    IN  Tup([i \in 1..Len(rh) |-> Tup([j \in 1..Len(cw) |->
            GenLeaf(seed, dtype, r0 + x_acc[i], c0 + y_acc[j], rh[i], cw[j])])])

\* The list of lists of slots handed to BlockMatrix(...); a nested slot is
\* itself built by BlockMatrix(...), validated.
GenGrid(p) ==
    LET x_acc == accumulate(<<0>> \o ButLast(p.rh))
        y_acc == accumulate(<<0>> \o ButLast(p.cw))
    IN  Tup([i \in 1..Len(p.rh) |-> Tup([j \in 1..Len(p.cw) |->
            IF IsNestedSlot(p.mode, i, j)
            THEN BlockMatrix(LeafGrid(p.seed, p.dtype, x_acc[i], y_acc[j], Split(p.rh[i]), Split(p.cw[j])),
                             None, TRUE)
            ELSE GenLeaf(p.seed, p.dtype, x_acc[i], y_acc[j], p.rh[i], p.cw[j])])])

\* The parameters whose nested slots can be built.
GridParams == {p \in Params : ~AnyRaise(Flatten(GenGrid(p)))}

Gen(p) == BlockMatrix(GenGrid(p), None, TRUE)

\* The parameters of the valid block matrices: those that the validating
\* constructor accepts.
ValidParams == {p \in GridParams : IsBlockMatrix(Gen(p))}

ValidMatrices == {Gen(p) : p \in ValidParams}

\* The grids of two block-rows and two block-columns of leaves of two rows
\* and two columns: A, B / C, D.
Stackings ==
    {BlockMatrix(LeafGrid(seed, dtype, 0, 0, <<2, 2>>, <<2, 2>>), None, TRUE) :
        seed \in Seeds, dtype \in InputDTypes}

\* The vectors of length n.
GenVec(seed, dtype, n) == NDArray(<<n>>, dtype, Tup([k \in 1..n |-> Val(seed, k, 2)]))

\* What np.empty may leave in a new array.
Garbage == {0, 9}

OtherSeed(seed) == CHOOSE t \in Seeds : t # seed

\* The other element type of the inputs.
OtherDType(d) == IF d = "float64" THEN "complex128" ELSE "float64"

\* The slot at row i and column j of the grid of p, built with the height
\* h, the width w and the element type dtype.
GenSlot(p, i, j, h, w, dtype) ==
    LET x_acc == accumulate(<<0>> \o ButLast(p.rh))
        y_acc == accumulate(<<0>> \o ButLast(p.cw))
    IN  IF IsNestedSlot(p.mode, i, j)
        THEN BlockMatrix(LeafGrid(p.seed, dtype, x_acc[i], y_acc[j], Split(h), Split(w)), None, TRUE)
        ELSE GenLeaf(p.seed, dtype, x_acc[i], y_acc[j], h, w)

\* The nested slot at (1, 1) of the grid of p built without validation from
\* leaves of which the last one has the other element type.
DeepSlot(p) ==
    LET leaves == LeafGrid(p.seed, p.dtype, 0, 0, Split(p.rh[1]), Split(p.cw[1]))
        nr == Len(leaves)
        nc == Len(leaves[1])
    IN  BlockMatrix(Tup([i \in 1..nr |-> Tup([j \in 1..nc |->
                        IF i = nr /\ j = nc THEN ndarray_astype(leaves[i][j], OtherDType(p.dtype))
                        ELSE leaves[i][j]])]),
                    None, FALSE)

Defects == {"none", "row_height", "col_width", "dtype_slot", "dtype_cast", "dtype_deep"}

\* The grids handed to the constructor: the grid of p, as it is or with one
\* slot replaced:
\*   row_height  the last slot of the first block-row is one row higher
\*   col_width   the last slot of the first block-column is one column wider
\*   dtype_slot  the last slot is built with the other element type
\*   dtype_cast  the first slot, a nested matrix, is cast (astype) to it
\*   dtype_deep  the first slot is a nested matrix built with check=False
\*               whose last leaf has the other element type
DefectGrid(p, d) ==
    LET nr == Len(p.rh)
        nc == Len(p.cw)
        grid == GenGrid(p)
    IN  Tup([i \in 1..nr |-> Tup([j \in 1..nc |->
            CASE d = "row_height" /\ i = 1 /\ j = nc -> GenSlot(p, i, j, p.rh[i] + 1, p.cw[j], p.dtype)
              [] d = "col_width" /\ i = nr /\ j = 1 -> GenSlot(p, i, j, p.rh[i], p.cw[j] + 1, p.dtype)
              [] d = "dtype_slot" /\ i = nr /\ j = nc ->
                     GenSlot(p, i, j, p.rh[i], p.cw[j], OtherDType(p.dtype))
              [] d = "dtype_cast" /\ i = 1 /\ j = 1 -> astype(grid[i][j], OtherDType(p.dtype))
              [] d = "dtype_deep" /\ i = 1 /\ j = 1 -> DeepSlot(p)
              [] OTHER -> grid[i][j]])])

DefectApplies(p, d) ==
    CASE d = "row_height" -> Len(p.cw) >= 2
      [] d = "col_width" -> Len(p.rh) >= 2
      [] d \in {"dtype_cast", "dtype_deep"} -> IsNestedSlot(p.mode, 1, 1)
      [] OTHER -> TRUE

\* The calls of the constructor: a grid whose slots exist, and check.
ConstructCases ==
    {c \in [blocks : {DefectGrid(q[1], q[2]) :
                         q \in {q \in GridParams \X Defects : DefectApplies(q[1], q[2])}},
            check : BOOLEAN] :
        ~AnyRaise(Flatten(c.blocks))}

\* The second operand of a pair: it has the other elements, the element type
\* dtype, and the partition of the first one (k = 1), or that partition with
\* rows and columns exchanged (2), or one block (3), or one more
\* block-column, of width 1 (4).
AltParams(p, k, dtype) ==
    [rh |-> CASE k = 1 -> p.rh [] k = 2 -> p.cw [] k = 3 -> <<SumSeq(p.rh)>> [] k = 4 -> p.rh,
     cw |-> CASE k = 1 -> p.cw [] k = 2 -> p.rh [] k = 3 -> <<SumSeq(p.cw)>> [] k = 4 -> p.cw \o <<1>>,
     mode |-> p.mode, seed |-> OtherSeed(p.seed), dtype |-> dtype]

\* The pairs of operands of the binary operators.
BinaryPairs ==
    {q \in {<<t[1], AltParams(t[1], t[2], t[3])>> : t \in ValidParams \X (1..3) \X InputDTypes} :
        q[2] \in ValidParams}

\* The pairs of operands of matmat: the row heights of the second one are
\* the column widths of the first one.
MatmatPairs ==
    {q \in {<<t[1], [rh |-> t[1].cw, cw |-> t[2], mode |-> t[3],
                     seed |-> OtherSeed(t[1].seed), dtype |-> t[1].dtype]>> :
               t \in ValidParams \X {<<1>>, <<1, 1>>, <<2, 1>>} \X Modes} :
        q[2] \in ValidParams}

\* The lists handed to fft_of_list: n matrices of the partition, the mode
\* and the element type of p, of which the last one, when there are two or
\* more, may have another partition (k of AltParams); and check.
FftCases ==
    {c \in [p : ValidParams, n : 1..MaxList, k : 1..4, check : BOOLEAN] :
        /\ c.n = 1 => c.k = 1
        /\ AltParams(c.p, c.k, c.p.dtype) \in ValidParams}

FftList(c) ==
    Tup([l \in 1..c.n |->
        Gen(IF l = 1 THEN c.p
            ELSE IF l = c.n THEN AltParams(c.p, c.k, c.p.dtype)
            ELSE [c.p EXCEPT !.seed = (c.p.seed + l - 1) % 2])])

\* The rows of stored slots of a matrix that shares them: n slots of one
\* shape (h, w), leaves or nested matrices by the mode.
SharedSlots(c) ==
    Tup([k \in 1..c.n |->
        IF IsNestedSlot(c.mode, 1, k)
        THEN BlockMatrix(LeafGrid(c.seed, c.dtype, 0, (k - 1) * c.w, Split(c.h), Split(c.w)), None, TRUE)
        ELSE GenLeaf(c.seed, c.dtype, 0, (k - 1) * c.w, c.h, c.w)])

\* The right operands of B @ X, B built from p: a number, an array of three
\* dimensions, a block matrix of the partition of B, a dense matrix of as
\* many rows as B has columns or of one more, a vector (kind 1 to 6).
MatmulOperand(p, kind, seed) ==
    CASE kind = 1 -> Number("int64", 2)
      [] kind = 2 -> NDArray(<<1, 1, 1>>, p.dtype, << << <<1>> >> >>)
      [] kind = 3 -> Gen(AltParams(p, 1, p.dtype))
      [] kind = 4 -> GenLeaf(seed, p.dtype, 0, 0, SumSeq(p.cw), 1)
      [] kind = 5 -> GenLeaf(seed, p.dtype, 0, 0, SumSeq(p.cw) + 1, 1)
      [] kind = 6 -> GenVec(seed, p.dtype, SumSeq(p.cw))

Scalars == {Number("int64", 2), Number("float64", 0 - 1), Number("complex128", 3)}

BinaryMethods == {"__add__", "__sub__", "__mul__", "__truediv__", "__eq__"}

\* self.<method>(other)
Method(name, self, other) ==
    CASE name = "__add__" -> __add__(self, other)
      [] name = "__sub__" -> __sub__(self, other)
      [] name = "__mul__" -> __mul__(self, other)
      [] name = "__rmul__" -> __rmul__(self, other)
      [] name = "__truediv__" -> __truediv__(self, other)
      [] name = "__eq__" -> __eq__(self, other)
      [] name = "__radd__" -> __radd__(self, other)
      [] name = "__rsub__" -> __rsub__(self, other)

(***************************************************************************)
(* The calls.  One call is made at a time: pc is "idle" before it and      *)
(* "done" after it, with op the name of the operation, args its operands   *)
(* and res what it returned or raised.                                     *)
(***************************************************************************)
Init ==
    /\ pc = "idle"
    /\ op = "none"
    /\ args = None
    /\ res = None
    /\ _vertices = <<>>
    /\ _faces = <<>>
    /\ __internals__ = <<>>
    /\ heap = <<>>
    /\ calls = 0

\* What a call leaves: the state "done" with its operands and its result.
Done(name, a, r) ==
    /\ pc' = "done"
    /\ op' = name
    /\ args' = a
    /\ res' = r
    /\ UNCHANGED <<_vertices, _faces, __internals__, heap, calls>>

\* B.full_matrix()
CallFullMatrix ==
    /\ pc = "idle"
    /\ \E B \in ValidMatrices \cup Stackings, g \in Garbage :
           Done("full_matrix", [self |-> B, g |-> g], full_matrix(B, g))

\* B.matvec(v)
CallMatvec ==
    /\ pc = "idle"
    /\ \E B \in ValidMatrices, seed \in Seeds, dtype \in InputDTypes :
           LET v == GenVec(seed, dtype, B.shape[2])
           IN  Done("matvec", [self |-> B, other |-> v], matvec(B, v))

\* B.T
CallT ==
    /\ pc = "idle"
    /\ \E B \in ValidMatrices : Done("T", [self |-> B], T(B))

\* BlockMatrix(blocks, check=check)
CallBlockMatrix ==
    /\ pc = "idle"
    /\ \E c \in ConstructCases :
           Done("BlockMatrix", c, BlockMatrix(c.blocks, None, c.check))

\* The call of a method of self with one operand.
Call(name, self, other, r) == Done(name, [self |-> self, other |-> other], r)

\* B1.matmat(B2), B2 a block matrix: no array is made with np.empty.
CallMatmat ==
    /\ pc = "idle"
    /\ \E q \in MatmatPairs : Call("matmat", Gen(q[1]), Gen(q[2]), matmat(Gen(q[1]), Gen(q[2]), 0))

\* B1.__add__(B2), B1.__sub__(B2), B1.__mul__(B2), B1.__truediv__(B2),
\* B1.__eq__(B2): the methods behind +, -, *, / and ==.
CallBinary ==
    /\ pc = "idle"
    /\ \E q \in BinaryPairs, name \in BinaryMethods :
           Done(name, [self |-> Gen(q[1]), other |-> Gen(q[2])], Method(name, Gen(q[1]), Gen(q[2])))

\* c * B: B.__rmul__(c)
CallScalarMul ==
    /\ pc = "idle"
    /\ \E B \in ValidMatrices, c \in Scalars :
           Done("__rmul__", [self |-> B, other |-> c], __rmul__(B, c))

\* BlockMatrix.fft_of_list(B1, ..., BN, check=check)
CallFft ==
    /\ pc = "idle"
    /\ \E c \in FftCases :
           Done("fft_of_list", [block_matrices |-> FftList(c), check |-> c.check],
                fft_of_list(FftList(c), c.check))

\* S.full_matrix(), S a matrix that shares its stored slots: np.empty and
\* _put_in_full_matrix with the positions of the sharing pattern.
CallFullMatrixOfShared ==
    /\ pc = "idle"
    /\ \E c \in [n : 1..MaxShared, h : 1..(MaxSize - 1), w : 1..(MaxSize - 1),
                 mode : Modes, seed : Seeds, dtype : InputDTypes],
          g \in Garbage :
           Done("full_matrix_of_shared",
                [_stored_blocks |-> SharedSlots(c),
                 positions |-> SharedPositions(c.n, c.h, c.w, <<0, 0>>), g |-> g],
                PutBlocks(SharedSlots(c), SharedPositions(c.n, c.h, c.w, <<0, 0>>),
                          Filled2(c.n * c.h, c.n * c.w, c.dtype, g), 1, c.n))

\* B.__matmul__(X): the method behind B @ X.
CallMatmul ==
    /\ pc = "idle"
    /\ \E p \in ValidParams, kind \in 1..6, seed \in Seeds, g \in Garbage :
           Done("__matmul__", [self |-> Gen(p), other |-> MatmulOperand(p, kind, seed), g |-> g],
                __matmul__(Gen(p), MatmulOperand(p, kind, seed), g))

\* B1.__ne__(B2): the method behind B1 != B2.
CallNe ==
    /\ pc = "idle"
    /\ \E q \in BinaryPairs :
           Done("__ne__", [self |-> Gen(q[1]), other |-> Gen(q[2])], __ne__(Gen(q[1]), Gen(q[2])))

\* c + B, c - B: B.__radd__(c), B.__rsub__(c), which Python calls once the
\* number's own method has returned NotImplemented.
CallReflected ==
    /\ pc = "idle"
    /\ \E B \in ValidMatrices, c \in {Number("int64", 0), Number("int64", 1), Number("float64", 2)},
          name \in {"__radd__", "__rsub__"} :
           Done(name, [self |-> B, other |-> c], Method(name, B, c))

Return ==
    /\ pc = "done"
    /\ pc' = "idle"
    /\ op' = "none"
    /\ args' = None
    /\ res' = None
    /\ UNCHANGED <<_vertices, _faces, __internals__, heap, calls>>

Next ==
    \/ CallFullMatrix
    \/ CallMatvec
    \/ CallT
    \/ CallBlockMatrix
    \/ CallMatmat
    \/ CallBinary
    \/ CallScalarMul
    \/ CallFft
    \/ CallFullMatrixOfShared
    \/ CallMatmul
    \/ CallNe
    \/ CallReflected
    \/ Return

Spec == Init /\ [][Next]_vars

(***************************************************************************)
(* class Mesh (mesh.py): one mesh, with its arrays _vertices and _faces    *)
(* and its dictionary __internals__ of cached properties.  A vertex is a   *)
(* triple of coordinates, a face a 4-tuple of ids of vertices, counted     *)
(* from 0.  An entry of the dictionary is absent, or present with a value. *)
(* The methods decorated with inplace_transformation are called in place,  *)
(* as the decorator's default has it.                                      *)
(***************************************************************************)
\* __internals__.clear(), dict(): every key is absent.
EmptyCache == [key \in {"triangles_ids", "quadrangles_ids", "hash"} |-> [present |-> FALSE]]

\* The vertices handed to the constructor and to the setter: none, or
\* MaxVertices points.
VertexLists == UNION {[1..n -> {<<0, 0, 0>>, <<1, 0, 0>>}] : n \in {0, MaxVertices}}

\* The faces handed to the constructor and to the setter: a triangle (its
\* last id is its first one) and two quadrangles.
FaceLists == UNION {[1..n -> {<<0, 1, 1, 0>>, <<0, 0, 1, 1>>, <<0, 1, 0, 1>>}] : n \in 0..MaxFaces}

\* faces.max() + 1 <= self.nb_vertices, for faces that are not empty
ReferencesVertices(faces, vertices) ==
    \A k \in 1..Len(faces) : \A c \in 1..4 : faces[k][c] + 1 <= Len(vertices)

\* What Mesh._compute_triangles_quadrangles adds to __internals__:
\* np.where(mask)[0] is the sequence of the ids, from 0, of the faces that
\* the mask holds.
_compute_triangles_quadrangles(faces) ==
    [key \in {"triangles_ids", "quadrangles_ids"} |->
        LET Held(id) == (faces[id + 1][1] = faces[id + 1][4]) = (key = "triangles_ids")
        IN  [present |-> TRUE, value |-> SelectSeq(Tup([k \in 1..Len(faces) |-> k - 1]), Held)]]

\* Mesh.as_set_of_faces; hash() of the frozenset is kept as the set itself.
as_set_of_faces(vertices, faces) ==
    IF ReferencesVertices(faces, vertices)
    THEN {Tup([c \in 1..4 |-> vertices[faces[k][c] + 1]]) : k \in 1..Len(faces)}
    ELSE Raise("IndexError", "self.vertices[self.faces]")

\* The dictionary after a read of triangles_ids, nb_triangles,
\* quadrangles_ids or nb_quadrangles: each looks for 'triangles_ids' and,
\* when it is absent, updates the dictionary.
AfterTrianglesRead(internals, faces) ==
    IF internals["triangles_ids"].present THEN internals
    ELSE [key \in DOMAIN internals |->
             IF key = "hash" THEN internals[key] ELSE _compute_triangles_quadrangles(faces)[key]]

\* Mesh(vertices, faces): the state after construction.
MeshInit ==
    /\ pc = "mesh"
    /\ op = "Mesh"
    /\ args = None
    /\ res = None
    /\ _vertices \in VertexLists
    /\ _faces \in {faces \in FaceLists : ReferencesVertices(faces, _vertices)}
    /\ __internals__ = EmptyCache
    /\ heap = <<>>
    /\ calls = 0

\* mesh.vertices = value
SetVertices ==
    /\ pc = "mesh"
    /\ op' = "vertices"
    /\ UNCHANGED <<pc, args, res, heap, calls>>
    /\ \E value \in VertexLists : _vertices' = value
    /\ __internals__' = EmptyCache
    /\ UNCHANGED _faces

\* mesh.faces = faces; the assertion on the ids leaves the mesh as it is.
SetFaces ==
    /\ pc = "mesh"
    /\ op' = "faces"
    /\ UNCHANGED <<pc, args, res, heap, calls>>
    /\ \E faces \in FaceLists :
           IF ReferencesVertices(faces, _vertices)
           THEN _faces' = faces /\ __internals__' = EmptyCache
           ELSE UNCHANGED <<_faces, __internals__>>
    /\ UNCHANGED _vertices

\* mesh.translate(vector): self.vertices += vector ends in the setter.
Translate ==
    /\ pc = "mesh"
    /\ op' = "translate"
    /\ UNCHANGED <<pc, args, res, heap, calls>>
    /\ \E vector \in {<<0 - 1, 0, 0>>} :
           LET moved == Tup([k \in 1..Len(_vertices) |->
                            Tup([c \in 1..3 |-> _vertices[k][c] + vector[c]])])
           IN  /\ \A k \in 1..Len(moved) : \A c \in 1..3 : moved[k][c] \in (0 - MaxCoord)..MaxCoord
               /\ _vertices' = moved
    /\ __internals__' = EmptyCache
    /\ UNCHANGED _faces

\* mesh.rotate(axis, angle), a quarter turn around Oz:
\* self._vertices = np.transpose(np.dot(rot_matrix, self._vertices.T))
Rotate ==
    /\ pc = "mesh"
    /\ op' = "rotate"
    /\ UNCHANGED <<pc, args, res, heap, calls>>
    /\ \E rot_matrix \in {<< <<0, 0 - 1, 0>>, <<1, 0, 0>>, <<0, 0, 1>> >>} :
           _vertices' = Tup([k \in 1..Len(_vertices) |->
                            Tup([r \in 1..3 |->
                                SumSeq(Tup([c \in 1..3 |-> rot_matrix[r][c] * _vertices[k][c]]))])])
    /\ UNCHANGED <<_faces, __internals__>>

\* mesh.flip_normals(): self._faces = np.fliplr(self._faces)
FlipNormals ==
    /\ pc = "mesh"
    /\ op' = "flip_normals"
    /\ UNCHANGED <<pc, args, res, heap, calls>>
    /\ _faces' = Tup([k \in 1..Len(_faces) |-> Tup([c \in 1..4 |-> _faces[k][5 - c]])])
    /\ UNCHANGED <<_vertices, __internals__>>

\* mesh.mirror(plane), the plane x = 0: the vertices through their setter,
\* then flip_normals.
Mirror ==
    /\ pc = "mesh"
    /\ op' = "mirror"
    /\ UNCHANGED <<pc, args, res, heap, calls>>
    /\ \E plane \in {[normal |-> <<1, 0, 0>>, c |-> 0]} :
           _vertices' = Tup([k \in 1..Len(_vertices) |->
                            LET d == SumSeq(Tup([c \in 1..3 |-> _vertices[k][c] * plane.normal[c]])) - plane.c
                            IN  Tup([c \in 1..3 |-> _vertices[k][c] - 2 * d * plane.normal[c]])])
    /\ __internals__' = EmptyCache
    /\ _faces' = Tup([k \in 1..Len(_faces) |-> Tup([c \in 1..4 |-> _faces[k][5 - c]])])

\* mesh.triangulate_quadrangles(): quadrangles_ids is read (and cached), the
\* quadrangles (a, b, c, d) become (a, c, d, a) in place, the triangles
\* (a, b, c, a) are appended, and the new array is bound to _faces.
TriangulateQuadrangles ==
    /\ pc = "mesh"
    /\ op' = "triangulate_quadrangles"
    /\ UNCHANGED <<pc, args, res, heap, calls>>
    /\ LET internals == AfterTrianglesRead(__internals__, _faces)
           quadrangles_ids == internals["quadrangles_ids"].value
           new_faces == Tup([k \in 1..Len(quadrangles_ids) |->
                            LET face == _faces[quadrangles_ids[k] + 1]
                            IN  <<face[1], face[2], face[3], face[1]>>])
           faces == Tup([k \in 1..Len(_faces) |->
                        IF \E q \in 1..Len(quadrangles_ids) : quadrangles_ids[q] = k - 1
                        THEN <<_faces[k][1], _faces[k][3], _faces[k][4], _faces[k][1]>>
                        ELSE _faces[k]])
       IN  /\ Len(faces) + Len(new_faces) <= 2 * MaxFaces
           /\ _faces' = faces \o new_faces
           /\ __internals__' = internals
    /\ UNCHANGED _vertices

\* mesh.triangles_ids, mesh.nb_triangles, mesh.quadrangles_ids,
\* mesh.nb_quadrangles
ReadTriangles ==
    /\ \E name \in {"triangles_ids", "nb_triangles", "quadrangles_ids", "nb_quadrangles"} :
           /\ pc = "mesh"
           /\ op' = name
           /\ UNCHANGED <<pc, args, res, heap, calls>>
    /\ __internals__' = AfterTrianglesRead(__internals__, _faces)
    /\ UNCHANGED <<_vertices, _faces>>

\* hash(mesh): Mesh.__hash__
Hash ==
    /\ pc = "mesh"
    /\ op' = "__hash__"
    /\ UNCHANGED <<pc, args, res, heap, calls>>
    /\ __internals__' =
           IF __internals__["hash"].present \/ ~ReferencesVertices(_faces, _vertices)
           THEN __internals__
           ELSE [__internals__ EXCEPT
                    !["hash"] = [present |-> TRUE, value |-> as_set_of_faces(_vertices, _faces)]]
    /\ UNCHANGED <<_vertices, _faces>>

MeshNext ==
    \/ SetVertices
    \/ SetFaces
    \/ Translate
    \/ Rotate
    \/ FlipNormals
    \/ Mirror
    \/ TriangulateQuadrangles
    \/ ReadTriangles
    \/ Hash

MeshSpec == MeshInit /\ [][MeshNext]_vars

(***************************************************************************)
(* The block matrices as objects in memory.                                *)
(*                                                                         *)
(* heap is the sequence of the objects allocated so far; the address of an *)
(* object is its index. The objects are                                    *)
(*   "ndarray"      an array: base = 0 when it owns its elements (data     *)
(*                  stands for them), else the address of the array it is  *)
(*                  a view of                                              *)
(*   "blocks"       the array self._stored_blocks: its slots are addresses *)
(*                  (numeric: a 4-D numeric array, whose slots are parts   *)
(*                  of its own buffer; else an array of references),       *)
(*                  base as for "ndarray"                                  *)
(*   "tuple"        the tuple self._stored_block_shapes                    *)
(*   "BlockMatrix"  an instance: the addresses of these two attributes,    *)
(*                  and its attributes shape, dtype and _stored_nb_blocks  *)
(* In the states of HeapSpec args and res are the lists of the addresses of *)
(* the operands and of the results of the last call, and calls is the      *)
(* number of the calls made.                                               *)
(* A computation on the heap is a record [heap, ret, ok]: the heap it      *)
(* leaves, the list of the addresses it has produced, and whether it ended *)
(* without an exception.                                                   *)
(***************************************************************************)
RECURSIVE Content(_, _)
\* What an object holds: the elements of an array read through its views,
\* the elements of the leaves of a tree.
Content(h, a) ==
    IF h[a].kind = "ndarray"
    THEN IF h[a].base = 0 THEN h[a].data ELSE Content(h, h[a].base)
    ELSE SumSeq(Tup([k \in 1..Len(Flatten(h[h[a]._stored_blocks].slots)) |->
                        Content(h, Flatten(h[h[a]._stored_blocks].slots)[k])]))

\* BlockMatrix(blocks, _stored_block_shapes=shapes, check=False) for the
\* blocks at the addresses inner.ret, in rows of nc: np.asarray copies the
\* blocks that are arrays of one shape into the buffer of a new numeric array,
\* raises ValueError for arrays of one height and several widths, and keeps
\* references to the blocks otherwise. shapes = 0 stands for None: the tuple
\* is computed. shape, dtype and _stored_nb_blocks are the attributes the
\* constructor computes. The address of the instance is appended to acc.
HeapBlockMatrix(inner, nc, shapes, acc) ==
    LET h == inner.heap
        flat == inner.ret
        n == Len(flat)
        arrays == \A k \in 1..n : h[flat[k]].kind = "ndarray"
        uniform == arrays /\ \A k \in 1..n : h[flat[k]].shape = h[flat[1]].shape
        copies == IF uniform
                  THEN Tup([k \in 1..n |->
                              [kind |-> "ndarray", base |-> 0, shape |-> h[flat[k]].shape,
                               dtype |-> h[flat[k]].dtype, data |-> Content(h, flat[k])]])
                  ELSE <<>>
        own == IF uniform THEN Tup([k \in 1..n |-> Len(h) + k]) ELSE flat
        _stored_blocks ==
            [kind |-> "blocks", base |-> 0, numeric |-> uniform,
             slots |-> Tup([i \in 1..(n \div nc) |->
                              Tup([j \in 1..nc |-> own[(i - 1) * nc + j]])])]
        computed ==
            [kind |-> "tuple",
             heights |-> Tup([i \in 1..(n \div nc) |-> h[flat[(i - 1) * nc + 1]].shape[1]]),
             widths |-> Tup([j \in 1..nc |-> h[flat[j]].shape[2]])]
        g == Len(h) + Len(copies) + 1
    IN  IF ~inner.ok
        THEN [heap |-> h, ret |-> acc, ok |-> FALSE]
        ELSE IF arrays /\ ~uniform
                /\ \A k \in 1..n : h[flat[k]].shape[1] = h[flat[1]].shape[1]
        THEN [heap |-> h, ret |-> acc, ok |-> FALSE]
        ELSE [heap |-> h \o copies \o <<_stored_blocks>>
                        \o (IF shapes = 0 THEN <<computed>> ELSE <<>>)
                        \o <<[kind |-> "BlockMatrix",
                              _stored_blocks |-> g,
                              _stored_nb_blocks |-> <<n \div nc, nc>>,
                              _stored_block_shapes |-> IF shapes = 0 THEN g + 1 ELSE shapes,
                              shape |-> IF shapes = 0
                                        THEN <<SumSeq(computed.heights), SumSeq(computed.widths)>>
                                        ELSE <<SumSeq(h[shapes].heights), SumSeq(h[shapes].widths)>>,
                              dtype |-> h[flat[1]].dtype]>>,
              ret |-> acc \o <<g + (IF shapes = 0 THEN 2 ELSE 1)>>,
              ok |-> TRUE]

\* The rebinding of T with the attribute of the operand in the place of the
\* attribute of the new matrix: self._stored_blocks = self._stored_blocks.T
HeapT_of_self(st, self, f) ==
    IF ~st.ok \/ f # "T" THEN st
    ELSE LET h == st.heap
             g == h[self]._stored_blocks
         IN  [st EXCEPT !.heap =
                 [h EXCEPT ![self]._stored_blocks = Len(h) + 1]
                 \o <<[kind |-> "blocks", base |-> g, numeric |-> h[g].numeric,
                       slots |-> Tup([j \in 1..Len(h[g].slots[1]) |->
                                        Tup([i \in 1..Len(h[g].slots) |->
                                               h[g].slots[i][j]])])]>>]

\* The end of T (f = "T"; the other operations end without it), for the
\* matrix transposed_blocks that _apply_unary_op has just built from self:
\* transposed_blocks._stored_blocks = transposed_blocks._stored_blocks.T
\* binds the attribute of the new matrix to a new view of its array of slots.
HeapT(st, self, f) ==
    IF ~st.ok \/ f # "T" THEN st
    ELSE LET h == st.heap
             transposed_blocks == st.ret[Len(st.ret)]
             g == h[transposed_blocks]._stored_blocks
         IN  [st EXCEPT !.heap =
                 [h EXCEPT ![transposed_blocks]._stored_blocks = Len(h) + 1]
                 \o <<[kind |-> "blocks", base |-> g, numeric |-> h[g].numeric,
                       slots |-> Tup([j \in 1..Len(h[g].slots[1]) |->
                                        Tup([i \in 1..Len(h[g].slots) |->
                                               h[g].slots[i][j]])])]>>]

RECURSIVE HeapOp(_, _, _, _), HeapZerosLike(_, _), HeapMap(_, _, _, _, _)
\* f(x) or f(x, y) for the objects at x and y, f one of "neg"
\* (operator.neg), "T" (lambda x: x.T) and "add" (operator.add): the result
\* is a new array (for "T", a new view of x) or, for a block matrix, the
\* matrix that _apply_unary_op or _apply_binary_op builds from the results
\* for its slots, with the tuple of block shapes of x. Its address is
\* appended to st.ret.
HeapOp(st, f, x, y) ==
    IF st.heap[x].kind = "ndarray" /\ (f = "add" => st.heap[y].kind = "ndarray")
    THEN [st EXCEPT
             !.heap = st.heap \o
                 <<[kind |-> "ndarray",
                    base |-> IF f = "T" THEN x ELSE 0,
                    shape |-> IF f = "T" /\ Len(st.heap[x].shape) = 2
                              THEN <<st.heap[x].shape[2], st.heap[x].shape[1]>>
                              ELSE st.heap[x].shape,
                    dtype |-> st.heap[x].dtype,
                    data |-> CASE f = "neg" -> 0 - Content(st.heap, x)
                               [] f = "add" -> Content(st.heap, x) + Content(st.heap, y)
                               [] OTHER -> 0]>>,
             !.ret = st.ret \o <<Len(st.heap) + 1>>]
    ELSE IF st.heap[x].kind = "BlockMatrix"
            /\ (f = "add" =>
                   /\ st.heap[y].kind = "BlockMatrix"
                   /\ Len(st.heap[st.heap[y]._stored_blocks].slots)
                        = Len(st.heap[st.heap[x]._stored_blocks].slots)
                   /\ Len(st.heap[st.heap[y]._stored_blocks].slots[1])
                        = Len(st.heap[st.heap[x]._stored_blocks].slots[1]))
    THEN HeapT(HeapBlockMatrix(
                   HeapMap([heap |-> st.heap, ret |-> <<>>, ok |-> TRUE], f,
                           Flatten(st.heap[st.heap[x]._stored_blocks].slots),
                           Flatten(st.heap[st.heap[y]._stored_blocks].slots),
                           1),
                   Len(st.heap[st.heap[x]._stored_blocks].slots[1]),
                   st.heap[x]._stored_block_shapes,
                   st.ret),
               x, f)
    ELSE [st EXCEPT !.ok = FALSE]

\* capytaine.matrices.builders.zeros_like(x, dtype=np.complex): a new array
\* of zeros, or the new matrix of the zeros_like of the slots.
HeapZerosLike(st, x) ==
    IF st.heap[x].kind = "ndarray"
    THEN [st EXCEPT
             !.heap = st.heap \o
                 <<[kind |-> "ndarray", base |-> 0, shape |-> st.heap[x].shape,
                    dtype |-> "complex128", data |-> 0]>>,
             !.ret = st.ret \o <<Len(st.heap) + 1>>]
    ELSE HeapBlockMatrix(
             HeapMap([heap |-> st.heap, ret |-> <<>>, ok |-> TRUE], "zeros_like",
                     Flatten(st.heap[st.heap[x]._stored_blocks].slots),
                     Flatten(st.heap[st.heap[x]._stored_blocks].slots),
                     1),
             Len(st.heap[st.heap[x]._stored_blocks].slots[1]), 0, st.ret)

\* [f(block) for block in xs] and [f(block, other_block) for block,
\* other_block in zip(xs, ys)], from the k-th block on: the results are
\* computed and allocated in the order of the list.
HeapMap(st, f, xs, ys, k) ==
    IF k > Len(xs) \/ ~st.ok THEN st
    ELSE HeapMap(IF f = "zeros_like" THEN HeapZerosLike(st, xs[k])
                 ELSE HeapOp(st, f, xs[k], ys[k]),
                 f, xs, ys, k + 1)

\* for matrix, computed_block in zip(result, fft_of_blocks):
\*     matrix._stored_blocks[i_block, j_block] = computed_block
\* for the k-th slot and the computed blocks at cs.ret: the assignment copies
\* the elements into the buffer of a numeric array and binds the slot of an
\* array of references. The arrays of slots of result are those zeros_like
\* has allocated, none of them a view. The computation goes on with the list
\* result.
HeapFftWrite(cs, result, k) ==
    LET h == cs.heap
        g(m) == h[result[m]]._stored_blocks
        nc(m) == Len(h[g(m)].slots[1])
        i(m) == ((k - 1) \div nc(m)) + 1
        j(m) == ((k - 1) % nc(m)) + 1
        Target(m) == IF h[g(m)].numeric THEN h[g(m)].slots[i(m)][j(m)] ELSE g(m)
        Written(m) == IF h[g(m)].numeric
                      THEN [h[Target(m)] EXCEPT !.data = Content(h, cs.ret[m])]
                      ELSE [h[g(m)] EXCEPT !.slots[i(m)][j(m)] = cs.ret[m]]
    IN  IF ~cs.ok THEN [heap |-> h, ret |-> result, ok |-> FALSE]
        ELSE [heap |-> Tup([a \in 1..Len(h) |->
                              IF \E m \in 1..Len(result) : Target(m) = a
                              THEN Written(CHOOSE m \in 1..Len(result) : Target(m) = a)
                              ELSE h[a]]),
              ret |-> result,
              ok |-> TRUE]

RECURSIVE HeapFft(_, _), HeapFftLoop(_, _, _)
\* The blocks computed for the list of blocks at xs. Arrays: np.fft.fft(
\* np.array(xs), axis=0), the parts of one new array (the transform of one
\* array is the array, that of two is their sum and their difference). Block
\* matrices: fft_of_list, which has zeros_like allocate the results and then
\* fills their slots.
HeapFft(st, xs) ==
    IF st.heap[xs[1]].kind = "ndarray"
    THEN [st EXCEPT
             !.heap = st.heap \o
                 Tup([m \in 1..Len(xs) |->
                        [kind |-> "ndarray", base |-> 0, shape |-> st.heap[xs[1]].shape,
                         dtype |-> "complex128",
                         data |-> IF m = 1
                                  THEN SumSeq(Tup([n \in 1..Len(xs) |->
                                                     Content(st.heap, xs[n])]))
                                  ELSE Content(st.heap, xs[1]) - Content(st.heap, xs[2])]]),
             !.ret = Tup([m \in 1..Len(xs) |-> Len(st.heap) + m])]
    ELSE HeapFftLoop(HeapMap([st EXCEPT !.ret = <<>>], "zeros_like", xs, xs, 1), xs, 1)

\* The loop of fft_of_list over the slots, from the k-th on; st.ret is the
\* list result.
HeapFftLoop(st, block_matrices, k) ==
    IF ~st.ok
       \/ k > Len(Flatten(st.heap[st.heap[block_matrices[1]]._stored_blocks].slots))
    THEN st
    ELSE HeapFftLoop(
             HeapFftWrite(
                 HeapFft([st EXCEPT !.ret = <<>>],
                         Tup([m \in 1..Len(block_matrices) |->
                                Flatten(st.heap[st.heap[block_matrices[m]]
                                                    ._stored_blocks].slots)[k]])),
                 st.ret, k),
             block_matrices, k + 1)

\* The state after the construction of the operands: a matrix of two arrays
\* of one shape, a matrix of four arrays of several shapes, or a matrix of
\* two matrices of one array; and a vector.
HeapInit ==
    /\ pc = "heap"
    /\ op = "BlockMatrix"
    /\ args = None
    /\ res = None
    /\ _vertices = <<>>
    /\ _faces = <<>>
    /\ __internals__ = <<>>
    /\ calls = 0
    /\ \E c \in {[shapes |-> <<<<1, 1>>, <<1, 1>>>>, nested |-> FALSE],
                 [shapes |-> <<<<1, 1>>, <<1, 2>>, <<2, 1>>, <<2, 2>>>>, nested |-> FALSE],
                 [shapes |-> <<<<1, 1>>, <<1, 2>>>>, nested |-> TRUE]} :
          LET start == [heap |-> Tup([k \in 1..Len(c.shapes) |->
                                        [kind |-> "ndarray", base |-> 0,
                                         shape |-> c.shapes[k], dtype |-> "float64",
                                         data |-> k]])
                                 \o <<[kind |-> "ndarray", base |-> 0, shape |-> <<2>>,
                                       dtype |-> "float64", data |-> 1]>>,
                        ret |-> Tup([k \in 1..Len(c.shapes) |-> k]),
                        ok |-> TRUE]
              first == HeapBlockMatrix([start EXCEPT !.ret = <<1>>], 1, 0, <<>>)
              second == HeapBlockMatrix([first EXCEPT !.ret = <<2>>], 1, 0, first.ret)
          IN  heap = IF c.nested THEN HeapBlockMatrix(second, 2, 0, <<>>).heap
                     ELSE HeapBlockMatrix(start, 2, 0, <<>>).heap

\* -B and B.T
HeapUnary ==
    \E self \in 1..Len(heap), f \in {"neg", "T"} :
        /\ pc = "heap"
        /\ calls < MaxCalls
        /\ heap[self].kind = "BlockMatrix"
        /\ LET st == HeapOp([heap |-> heap, ret |-> <<>>, ok |-> TRUE], f, self, self)
           IN  /\ heap' = st.heap
               /\ res' = IF st.ok THEN st.ret ELSE <<>>
        /\ op' = f
        /\ args' = <<self>>
        /\ calls' = calls + 1
        /\ UNCHANGED <<pc, _vertices, _faces, __internals__>>

\* A + B
HeapAdd ==
    \E self \in 1..Len(heap), other \in 1..Len(heap) :
        /\ pc = "heap"
        /\ calls < MaxCalls
        /\ heap[self].kind = "BlockMatrix"
        /\ heap[other].kind = "BlockMatrix"
        /\ LET st == HeapOp([heap |-> heap, ret |-> <<>>, ok |-> TRUE], "add", self, other)
           IN  /\ heap' = st.heap
               /\ res' = IF st.ok THEN st.ret ELSE <<>>
        /\ op' = "add"
        /\ args' = <<self, other>>
        /\ calls' = calls + 1
        /\ UNCHANGED <<pc, _vertices, _faces, __internals__>>

\* B.matvec(other): the result is the array np.zeros allocates, the only
\* array the loop adds to.
HeapMatvec ==
    \E self \in 1..Len(heap), other \in 1..Len(heap) :
        /\ pc = "heap"
        /\ calls < MaxCalls
        /\ heap[self].kind = "BlockMatrix"
        /\ heap[other].kind = "ndarray"
        /\ Len(heap[other].shape) = 1
        /\ heap' = heap \o <<[kind |-> "ndarray", base |-> 0,
                              shape |-> <<heap[self].shape[1]>>,
                              dtype |-> heap[other].dtype,
                              data |-> Content(heap, self) * Content(heap, other)]>>
        /\ res' = <<Len(heap) + 1>>
        /\ op' = "matvec"
        /\ args' = <<self, other>>
        /\ calls' = calls + 1
        /\ UNCHANGED <<pc, _vertices, _faces, __internals__>>

\* A.matmat(B). For matrices of arrays whose block shapes agree: an array
\* for every slot of the product, and the new matrix of them. With block
\* shapes that do not agree the call returns None; with a block matrix in a
\* slot the sum of the products raises TypeError, and arrays whose shapes do
\* not fit raise ValueError: no matrix is built.
HeapMatmat ==
    \E self \in 1..Len(heap), other \in 1..Len(heap) :
        /\ pc = "heap"
        /\ calls < MaxCalls
        /\ heap[self].kind = "BlockMatrix"
        /\ heap[other].kind = "BlockMatrix"
        /\ LET a == heap[heap[self]._stored_blocks].slots
               b == heap[heap[other]._stored_blocks].slots
               products ==
                   Tup([k \in 1..(Len(a) * Len(b[1])) |->
                          [kind |-> "ndarray", base |-> 0,
                           shape |-> <<heap[a[((k - 1) \div Len(b[1])) + 1][1]].shape[1],
                                       heap[b[1][((k - 1) % Len(b[1])) + 1]].shape[2]>>,
                           dtype |-> heap[a[1][1]].dtype,
                           data |-> SumSeq(Tup([n \in 1..Len(b) |->
                                       Content(heap, a[((k - 1) \div Len(b[1])) + 1][n])
                                       * Content(heap, b[n][((k - 1) % Len(b[1])) + 1])]))]])
               st == HeapBlockMatrix(
                         [heap |-> heap \o products,
                          ret |-> Tup([k \in 1..Len(products) |-> Len(heap) + k]),
                          ok |-> TRUE],
                         Len(b[1]), 0, <<>>)
           IN  IF /\ heap[heap[self]._stored_block_shapes].widths
                       = heap[heap[other]._stored_block_shapes].heights
                  /\ Len(a[1]) = Len(b)
                  /\ \A k \in 1..Len(Flatten(a)) : heap[Flatten(a)[k]].kind = "ndarray"
                  /\ \A k \in 1..Len(Flatten(b)) : heap[Flatten(b)[k]].kind = "ndarray"
                  /\ \A i \in 1..Len(a), j \in 1..Len(b[1]), n \in 1..Len(b) :
                         heap[a[i][n]].shape[2] = heap[b[n][j]].shape[1]
               THEN /\ heap' = st.heap
                    /\ res' = IF st.ok THEN st.ret ELSE <<>>
               ELSE /\ heap' = heap
                    /\ res' = <<>>
        /\ op' = "matmat"
        /\ args' = <<self, other>>
        /\ calls' = calls + 1
        /\ UNCHANGED <<pc, _vertices, _faces, __internals__>>

\* B.full_matrix(): the result is the array np.empty allocates, the only
\* array _put_in_full_matrix writes.
HeapFullMatrix ==
    \E self \in 1..Len(heap) :
        /\ pc = "heap"
        /\ calls < MaxCalls
        /\ heap[self].kind = "BlockMatrix"
        /\ heap' = heap \o <<[kind |-> "ndarray", base |-> 0,
                              shape |-> heap[self].shape,
                              dtype |-> heap[self].dtype,
                              data |-> Content(heap, self)]>>
        /\ res' = <<Len(heap) + 1>>
        /\ op' = "full_matrix"
        /\ args' = <<self>>
        /\ calls' = calls + 1
        /\ UNCHANGED <<pc, _vertices, _faces, __internals__>>

\* BlockMatrix.fft_of_list(B, check=check) and BlockMatrix.fft_of_list(B, B,
\* check=check). With one matrix and the check the assertion on the empty
\* list fails before anything is allocated.
HeapFftOfList ==
    \E self \in 1..Len(heap), n \in 1..2, check \in BOOLEAN :
        /\ pc = "heap"
        /\ calls < MaxCalls
        /\ heap[self].kind = "BlockMatrix"
        /\ LET st == HeapFft([heap |-> heap, ret |-> <<>>, ok |-> ~(check /\ n = 1)],
                             Tup([m \in 1..n |-> self]))
           IN  /\ heap' = st.heap
               /\ res' = IF st.ok THEN st.ret ELSE <<>>
        /\ op' = "fft_of_list"
        /\ args' = Tup([m \in 1..n |-> self])
        /\ calls' = calls + 1
        /\ UNCHANGED <<pc, _vertices, _faces, __internals__>>

HeapNext ==
    \/ HeapUnary
    \/ HeapAdd
    \/ HeapMatvec
    \/ HeapMatmat
    \/ HeapFullMatrix
    \/ HeapFftOfList

HeapSpec == HeapInit /\ [][HeapNext]_vars

(***************************************************************************)
(* The claims.                                                             *)
(***************************************************************************)
\* The elements of two dense arrays are the same.
SameArray(a, b) == IsNDArray(a) /\ IsNDArray(b) /\ a.shape = b.shape /\ a.data = b.data

\* The slots of the list of lists blocks.
Slots(blocks) == {blocks[i][j] : i \in 1..Len(blocks), j \in 1..Len(blocks[1])}

RECURSIVE LeafDTypes(_)
\* The element types of the leaves reachable from a slot.
LeafDTypes(x) ==
    IF IsBlockMatrix(x) THEN UNION {LeafDTypes(y) : y \in Slots(x._stored_blocks.grid)}
    ELSE {x.dtype}

RECURSIVE Structure(_)
\* The nesting structure of a slot: its grid, down to the shapes of the leaves.
Structure(x) ==
    IF IsBlockMatrix(x)
    THEN [grid |-> Tup([i \in 1..Len(x._stored_blocks.grid) |->
                       Tup([j \in 1..Len(x._stored_blocks.grid[i]) |->
                           Structure(x._stored_blocks.grid[i][j])])]),
          block_shapes |-> block_shapes(x)]
    ELSE [leaf |-> x.shape]

\* C1: for every valid block matrix B and every dense vector v of length
\* B.shape[1], B.matvec(v) is the product of B.full_matrix() with v.
C1_MatvecIsFullProduct ==
    (pc = "done" /\ op = "matvec") =>
        \A g \in Garbage : SameArray(res, ndarray_matmul(full_matrix(args.self, g), args.other))

\* C2: for valid block matrices B1 and B2, the column widths of B1 being the
\* row heights of B2, B1.matmat(B2) is a block matrix whose full matrix is
\* the product of the full matrices of B1 and B2.
C2_MatmatIsFullProduct ==
    (pc = "done" /\ op = "matmat") =>
        /\ IsBlockMatrix(res)
        /\ \A g \in Garbage :
               SameArray(full_matrix(res, g),
                         ndarray_matmul(full_matrix(args.self, g), full_matrix(args.other, g)))

\* C3: for every valid block matrix B, full_matrix(B.T) is the transpose of
\* full_matrix(B).
C3_FullOfTransposeIsTransposeOfFull ==
    (pc = "done" /\ op = "T") =>
        /\ IsBlockMatrix(res)
        /\ \A g \in Garbage : SameArray(full_matrix(res, g), ndarray_T(full_matrix(args.self, g)))

\* C4: B.T has the partition metadata of B swapped: block_shapes (B's column
\* widths, B's row heights), nb_blocks reversed, shape reversed.
C4_TransposeSwapsMetadata ==
    (pc = "done" /\ op = "T") =>
        /\ IsBlockMatrix(res)
        /\ block_shapes(res) = <<block_shapes(args.self)[2], block_shapes(args.self)[1]>>
        /\ nb_blocks(res) = <<nb_blocks(args.self)[2], nb_blocks(args.self)[1]>>
        /\ res.shape = <<args.self.shape[2], args.self.shape[1]>>

\* The result of a map keeps the partition of self.
KeepsPartition(r, self) ==
    /\ IsBlockMatrix(r)
    /\ nb_blocks(r) = nb_blocks(self)
    /\ block_shapes(r) = block_shapes(self)
    /\ r.shape = self.shape

\* C5: flattening is linear.  For valid block matrices B1 and B2 of one
\* partition at every level, full_matrix(B1 + B2) is full_matrix(B1) +
\* full_matrix(B2); for a scalar c, full_matrix(c * B1) is c *
\* full_matrix(B1); both results keep B1's nb_blocks, block_shapes and shape.
C5_FlattenIsLinear ==
    /\ (pc = "done" /\ op = "__add__" /\ Structure(args.self) = Structure(args.other)) =>
           /\ KeepsPartition(res, args.self)
           /\ \A g \in Garbage :
                  SameArray(full_matrix(res, g),
                            ndarray_binary("add", full_matrix(args.self, g), full_matrix(args.other, g)))
    /\ (pc = "done" /\ op = "__rmul__") =>
           /\ KeepsPartition(res, args.self)
           /\ \A g \in Garbage :
                  SameArray(full_matrix(res, g),
                            ndarray_unary([name |-> "rmul", other |-> args.other], full_matrix(args.self, g)))

\* C5's case: the sum of two nested block matrices of two block-rows and two
\* block-columns whose elements differ has been computed.
C5_Witness ==
    /\ pc = "done"
    /\ op = "__add__"
    /\ Structure(args.self) = Structure(args.other)
    /\ nb_blocks(args.self) = <<2, 2>>
    /\ IsBlockMatrix(args.self._stored_blocks.grid[1][1])
    /\ full_matrix(args.self, 0) # full_matrix(args.other, 0)
    /\ IsBlockMatrix(res)

\* Some block-row of the grid holds two slots of different heights, or some
\* block-column two slots of different widths.
InconsistentShapes(blocks) ==
    \/ \E i \in 1..Len(blocks) : \E j, k \in 1..Len(blocks[i]) :
           ShapeOf(blocks[i][j])[1] # ShapeOf(blocks[i][k])[1]
    \/ \E j \in 1..Len(blocks[1]) : \E i, k \in 1..Len(blocks) :
           ShapeOf(blocks[i][j])[2] # ShapeOf(blocks[k][j])[2]

\* C6: the constructor given a grid of inconsistent row heights or column
\* widths fails when it validates, and constructs the block matrix when
\* check=False.
C6_ShapeErrorUnlessSkipped ==
    (pc = "done" /\ op = "BlockMatrix" /\ InconsistentShapes(args.blocks)) =>
        IF args.check THEN IsRaise(res) ELSE IsBlockMatrix(res)

\* C7: the validating constructor fails on its assertions when some leaf
\* reachable from the grid that it stores has another element type than the
\* declared one, that of the first slot; so that every validated tree has one
\* element type across its reachable leaves.
C7_OneDTypeAcrossLeaves ==
    (pc = "done" /\ op = "BlockMatrix" /\ args.check /\ ~IsRaise(asarray(args.blocks))) =>
        /\ (\E x \in Slots(asarray(args.blocks).grid) :
                LeafDTypes(x) # {asarray(args.blocks).grid[1][1].dtype}) =>
               (IsRaise(res) /\ res.exc = "AssertionError")
        /\ IsBlockMatrix(res) => LeafDTypes(res) = {res.dtype}

\* C8: a binary elementwise method (add, sub, mul, truediv, eq) between two
\* block matrices whose nb_blocks differ returns NotImplemented: it raises
\* nothing and builds no tree.
C8_DifferentGridsNotImplemented ==
    (/\ pc = "done"
     /\ op \in BinaryMethods
     /\ IsBlockMatrix(args.other)
     /\ nb_blocks(args.self) # nb_blocks(args.other)) =>
        res = NotImplemented

\* C8's case: a method has been called with a second operand that has one
\* block where the first one has several, and has returned NotImplemented.
C8_Witness ==
    /\ pc = "done"
    /\ op \in BinaryMethods
    /\ IsBlockMatrix(args.other)
    /\ nb_blocks(args.self) = <<2, 1>>
    /\ nb_blocks(args.other) = <<1, 1>>
    /\ res = NotImplemented

\* Some matrix of the list differs from the first one in nb_blocks, in shape
\* or in type.
Mismatched(block_matrices) ==
    \E m \in 2..Len(block_matrices) :
        \/ nb_blocks(block_matrices[m]) # nb_blocks(block_matrices[1])
        \/ block_matrices[m].shape # block_matrices[1].shape
        \/ block_matrices[m].kind # block_matrices[1].kind

\* C9: fft_of_list with check on a list of two or more matrices of which one
\* differs from the first in nb_blocks, shape or type fails on its
\* assertions.
C9_FftRejectsMismatch ==
    (/\ pc = "done"
     /\ op = "fft_of_list"
     /\ args.check
     /\ Len(args.block_matrices) >= 2
     /\ Mismatched(args.block_matrices)) =>
        res = Raise("AssertionError", "fft_of_list")

\* C10: fft_of_list with check on N >= 1 valid block matrices of one element
\* type, nb_blocks, shape and nesting structure returns N block matrices of
\* that nb_blocks and shape, of complex type, each element of the k-th one
\* being the k-th term of the transform of the elements at its place in the
\* N inputs.
C10_FftOfIdenticalStructures ==
    (/\ pc = "done"
     /\ op = "fft_of_list"
     /\ args.check
     /\ \A m \in 1..Len(args.block_matrices) :
            /\ Structure(args.block_matrices[m]) = Structure(args.block_matrices[1])
            /\ args.block_matrices[m].dtype = args.block_matrices[1].dtype) =>
        /\ res.kind = "list"
        /\ Len(res.items) = Len(args.block_matrices)
        /\ \A k \in 1..Len(res.items) :
               /\ IsBlockMatrix(res.items[k])
               /\ nb_blocks(res.items[k]) = nb_blocks(args.block_matrices[1])
               /\ res.items[k].shape = args.block_matrices[1].shape
               /\ res.items[k].dtype = "complex128"
               /\ \A g \in Garbage :
                      full_matrix(res.items[k], g).data =
                          Tup([r \in 1..res.items[k].shape[1] |-> Tup([c \in 1..res.items[k].shape[2] |->
                              DFT(k - 1, Tup([n \in 1..Len(args.block_matrices) |->
                                  full_matrix(args.block_matrices[n], g).data[r][c]]))])])

RECURSIVE Regions(_, _)
RECURSIVE RegionsFrom(_, _, _)
\* The regions of the leaves of a block matrix anchored at where: each leaf
\* with the coordinates of its first element, which lies the heights of the
\* block-rows before it down and the widths of the block-columns before it
\* right of the anchor of its matrix.
Regions(self, where) == RegionsFrom(self, where, 1)

\* The regions of the slots of self from the k-th one on, row after row.
RegionsFrom(self, where, k) ==
    IF k > nb_blocks(self)[1] * nb_blocks(self)[2] THEN <<>>
    ELSE LET i == ((k - 1) \div nb_blocks(self)[2]) + 1
             j == ((k - 1) % nb_blocks(self)[2]) + 1
             anchor == <<where[1] + SumSeq(SubSeq(block_shapes(self)[1], 1, i - 1)),
                         where[2] + SumSeq(SubSeq(block_shapes(self)[2], 1, j - 1))>>
             block == self._stored_blocks.grid[i][j]
         IN  (IF IsBlockMatrix(block) THEN Regions(block, anchor)
              ELSE <<[anchor |-> anchor, leaf |-> block]>>)
             \o RegionsFrom(self, where, k + 1)

\* The regions that cover the coordinate (r, c), counted from 1.
Covering(regions, r, c) ==
    {k \in 1..Len(regions) :
        /\ r > regions[k].anchor[1] /\ r <= regions[k].anchor[1] + regions[k].leaf.shape[1]
        /\ c > regions[k].anchor[2] /\ c <= regions[k].anchor[2] + regions[k].leaf.shape[2]}

\* C11: for every valid block matrix B, full_matrix(B) has the shape of B,
\* and every coordinate of it lies in the region of exactly one leaf and
\* holds the element of that leaf, whatever np.empty left in the array.
C11_FullMatrixWritesEachCoordinateOnce ==
    (pc = "done" /\ op = "full_matrix") =>
        /\ IsNDArray(res)
        /\ res.shape = args.self.shape
        /\ \A g \in Garbage : full_matrix(args.self, g) = res
        /\ \A r \in 1..args.self.shape[1], c \in 1..args.self.shape[2] :
               /\ Cardinality(Covering(Regions(args.self, <<0, 0>>), r, c)) = 1
               /\ \A k \in Covering(Regions(args.self, <<0, 0>>), r, c) :
                      LET region == Regions(args.self, <<0, 0>>)[k]
                      IN  res.data[r][c] = region.leaf.data[r - region.anchor[1]][c - region.anchor[2]]

\* C11's case: the grid A, B / C, D of leaves of two rows and two columns
\* has been flattened from an array that np.empty left filled, and is the
\* stacking of the four leaves.
C11_Witness ==
    /\ pc = "done"
    /\ op = "full_matrix"
    /\ args.g # 0
    /\ nb_blocks(args.self) = <<2, 2>>
    /\ args.self.shape = <<4, 4>>
    /\ \E seed \in Seeds : res.data = GenLeaf(seed, res.dtype, 0, 0, 4, 4).data

\* The content of a stored slot: the leaf itself, or the flattened nested
\* matrix.
ContentOf(block) == IF IsBlockMatrix(block) THEN full_matrix(block, 0) ELSE block

\* C12: when the position enumerator yields several anchors for one stored
\* slot, the flattened array holds at every one of these anchors the same
\* content, and that content is the complete content of the slot (for a
\* nested slot the region assembled at the first anchor).
C12_EveryAnchorHoldsTheSlot ==
    (pc = "done" /\ op = "full_matrix_of_shared") =>
        /\ IsNDArray(res)
        /\ \A k \in 1..Len(args._stored_blocks) :
               LET block == args._stored_blocks[k]
                   first == args.positions[k][1]
               IN  \A a \in 1..Len(args.positions[k]) :
                       LET position == args.positions[k][a]
                           region == Slice2(res, position[1], block.shape[1], position[2], block.shape[2])
                       IN  /\ region = Slice2(res, first[1], block.shape[1], first[2], block.shape[2])
                           /\ region.shape = block.shape
                           /\ region.data = ContentOf(block).data

\* A nested slot with two anchors is flattened into an array that np.empty
\* left filled with something else than zeros.
C12_Witness ==
    /\ pc = "done" /\ op = "full_matrix_of_shared"
    /\ args.g # 0
    /\ IsNDArray(res)
    /\ \E k \in 1..Len(args._stored_blocks) :
           /\ IsBlockMatrix(args._stored_blocks[k])
           /\ nb_blocks(args._stored_blocks[k]) # <<1, 1>>
           /\ Len(args.positions[k]) >= 2
           /\ args.positions[k][1] # args.positions[k][2]

\* The right operands that B @ X does not support.
UnsupportedOperand(B, X) ==
    \/ ~(IsBlockMatrix(X) \/ IsNDArray(X))
    \/ ndim(X) \notin {1, 2}
    \/ ndim(X) = 2 /\ IsBlockMatrix(X) /\ block_shapes(X)[1] # block_shapes(B)[2]
    \/ ndim(X) = 2 /\ IsNDArray(X) /\ X.shape[1] # B.shape[2]

\* C13: B @ X returns NotImplemented for every unsupported right operand (no
\* block matrix and no array, a rank other than 1 or 2, a 2-D X that is
\* incompatible), never an ordinary value; a 1-D X goes to matvec and a
\* compatible 2-D X to matmat.
C13_UnsupportedOperandNotImplemented ==
    (pc = "done" /\ op = "__matmul__") =>
        IF UnsupportedOperand(args.self, args.other) THEN res = NotImplemented
        ELSE IF ndim(args.other) = 1 THEN res = matvec(args.self, args.other)
        ELSE res = matmat(args.self, args.other, args.g)

\* C14: the result of B.matvec(v) has the promotion of the element types of
\* B and of v as its element type, and the product completes for every
\* combination of the two element types.
C14_MatvecPromotesDType ==
    (pc = "done" /\ op = "matvec") =>
        /\ IsNDArray(res)
        /\ res.dtype = result_type(args.self.dtype, args.other.dtype)

\* The invariants of a block matrix against the grid that it stores.
InvariantsHold(B) ==
    LET g == B._stored_blocks.grid
        row_heights == block_shapes(B)[1]
        col_widths == block_shapes(B)[2]
    IN  /\ nb_blocks(B) = <<Len(g), Len(g[1])>>
        /\ Len(row_heights) = Len(g)
        /\ Len(col_widths) = Len(g[1])
        /\ \A i \in 1..Len(g) : \A j \in 1..Len(g[i]) :
               /\ i <= Len(row_heights) /\ j <= Len(col_widths)
               /\ ShapeOf(g[i][j]) = <<row_heights[i], col_widths[j]>>
        /\ B.shape = <<SumSeq(row_heights), SumSeq(col_widths)>>

\* C16: every block matrix reached from validated constructions by unary
\* maps, binary maps, transposes and block products satisfies the invariants
\* against its stored grid: nb_blocks is the real number of block-rows and
\* block-columns, block_shapes has the heights and the widths of the slots,
\* shape is their sums.
C16_ResultsKeepInvariants ==
    (/\ pc = "done"
     /\ op \in {"T", "__rmul__", "matmat"} \cup BinaryMethods
     /\ IsBlockMatrix(res)) => InvariantsHold(res)

\* Two grids of the same numbers of rows and columns have two leaves of
\* different shapes at one place.
LeavesDiffer(B1, B2) ==
    LET g == B1._stored_blocks.grid
        h == B2._stored_blocks.grid
    IN  \E i \in 1..Len(g) : \E j \in 1..Len(g[i]) :
            /\ IsNDArray(g[i][j]) /\ IsNDArray(h[i][j])
            /\ g[i][j].shape # h[i][j].shape

\* C17: an elementwise binary operation (+, -) between two block matrices of
\* identical nb_blocks of which two corresponding leaves have different
\* shapes fails with the shape error of the leaf operation; it never
\* returns a tree.
C17_LeafShapeMismatchFails ==
    (/\ pc = "done"
     /\ op \in {"__add__", "__sub__"}
     /\ nb_blocks(args.self) = nb_blocks(args.other)
     /\ LeavesDiffer(args.self, args.other)) => IsRaise(res)

RECURSIVE IsNegationOf(_, _)
\* r is the tree of e with every boolean negated.
IsNegationOf(r, e) ==
    IF IsBlockMatrix(e)
    THEN /\ IsBlockMatrix(r)
         /\ nb_blocks(r) = nb_blocks(e)
         /\ block_shapes(r) = block_shapes(e)
         /\ Len(r._stored_blocks.grid) = Len(e._stored_blocks.grid)
         /\ \A i \in 1..Len(e._stored_blocks.grid) :
                /\ Len(r._stored_blocks.grid[i]) = Len(e._stored_blocks.grid[i])
                /\ \A j \in 1..Len(e._stored_blocks.grid[i]) :
                       IsNegationOf(r._stored_blocks.grid[i][j], e._stored_blocks.grid[i][j])
    ELSE /\ IsNDArray(e) /\ IsNDArray(r)
         /\ r.shape = e.shape
         /\ r.dtype = "bool"
         /\ \A i \in 1..e.shape[1] : \A j \in 1..e.shape[2] : r.data[i][j] = 1 - e.data[i][j]

\* C18: B1 != B2 between block matrices of identical nb_blocks is the
\* boolean tree of the same partition whose every element is the negation of
\* that of B1 == B2; when the nb_blocks differ it is NotImplemented, and
\* nothing is raised.
C18_NeIsNegatedEq ==
    (pc = "done" /\ op = "__ne__") =>
        IF nb_blocks(args.self) = nb_blocks(args.other)
        THEN IsBlockMatrix(__eq__(args.self, args.other)) =>
                 IsNegationOf(res, __eq__(args.self, args.other))
        ELSE res = NotImplemented

\* C19: the reflected method (__radd__, __rsub__) of a block matrix B whose
\* other operand is no block matrix (a number on the left of + or -, as in
\* 0 + B or 1 - B) returns NotImplemented; the method never raises.
C19_ReflectedReturnsNotImplemented ==
    (pc = "done" /\ op \in {"__radd__", "__rsub__"} /\ ~IsBlockMatrix(args.other)) => res = NotImplemented

\* The value of a cached property computed from the vertices and the faces.
Recomputed(key, vertices, faces) ==
    IF key = "hash" THEN as_set_of_faces(vertices, faces)
    ELSE _compute_triangles_quadrangles(faces)[key].value

C21_FacesReferenceVertices ==
    pc = "mesh" =>
        \A k \in 1..Len(_faces) :
            \A c \in 1..4 : _faces[k][c] >= 0 /\ _faces[k][c] < Len(_vertices)

====
